---- MODULE Spec2Model ----
(***************************************************************************)
(* A model of the job worker library (package worker, package job,         *)
(* package safebuffer and package safebuffer/safereader).                   *)
(*                                                                          *)
(* Three state machines share this module:                                  *)
(*                                                                          *)
(*   Spec     the Worker (the engine) with its job map, the Job objects it  *)
(*            holds, the OS process and the wait goroutine behind each      *)
(*            job, and client goroutines calling StartJob, StopJob,         *)
(*            JobStatus and JobOutput.                                      *)
(*   SpecJob  one Job used through its own methods: goroutines calling      *)
(*            Start and Stop concurrently, the process and the wait         *)
(*            goroutine.                                                    *)
(*   SpecBuf  one safebuffer.Buffer with its writer, its list of readers    *)
(*            and one goroutine per safereader.Reader.                      *)
(*                                                                          *)
(* Every goroutine is a process with a program counter; one action is one   *)
(* step between two accesses to shared memory.                              *)
(***************************************************************************)
EXTENDS Integers, Sequences, FiniteSets, TLC

(***************************************************************************)
(* Bounds of the model.                                                     *)
(***************************************************************************)
\* number of Job objects job.New may construct
MaxJobs == 1
\* number of readers JobOutput may register, over all jobs
MaxJobReaders == 1
\* number of readers Buffer.NewReader may create
MaxReaders == 1
\* number of Write calls on the buffer
MaxWrites == 1
\* len(p) of a Write: an empty p, one byte, several bytes
ChunkLens == 0..2
\* len(p) of a Read: an empty p, one byte, several bytes
DstLens == 0..2
\* number of Write calls on the two ByteBuffers
MaxLogWrites == 2
\* minBufferSize of the slice ByteBuffer
minBufferSize == 64
\* len(p) of a ByteBuffer.Write: an empty p, a few bytes, more than minBufferSize
LogChunkLens == {0, 3, 70}
\* len(p) of a ByteBuffer.ReadOffset: an empty p, less than a chunk, more than a chunk
LogDstLens == {0, 2, 80}

(***************************************************************************)
(* job.Status, an int enum.                                                 *)
(***************************************************************************)
StatusUnspecified == 0
StatusNotStarted == 1
StatusRunning == 2
StatusCompleted == 3
StatusStopped == 4
\* used by Job.Start when cmd.Start fails; its declaration is not part of the
\* sources at hand, only its use is: any value above StatusNotStarted gives
\* the same behaviours, since nothing sets the status after a failed start.
StatusStartError == 5

JobIDs == 1..MaxJobs
\* job.UserID values: two principals and the empty string
Users == {"u", "v"}
NoUser == ""
\* goroutines calling into the Worker (Spec). Every step of the Worker itself
\* (getJob, the insertion into the map) is taken under w.mu; the calls of
\* several goroutines into one Job are the subject of SpecJob.
Clients == {"c1"}
\* goroutines calling the methods of one Job (SpecJob)
Callers == {"g1", "g2", "g3"}
Threads == Clients \cup Callers
ReaderIDs == 1..MaxReaders

VARIABLES
    \* ---- Worker
    jobs,       \* Worker.jobs: the ids registered in the map (a Job is keyed by its own id)
    nextID,     \* how many Job objects job.New has constructed; they are 1..nextID
    \* ---- Job fields, each a function over JobIDs
    userID,     \* Job.userID
    status,     \* Job.status
    done,       \* Job.done is closed
    cmdErr,     \* Job.cmdErr: "nil" | "ExitError" | "OtherError"
    exitCode,   \* Job.exitCode, a pointer: <<>> for nil, <<c>> for a pointer to the code c
    startOnce,  \* Job.startOnce: "idle" | "done"
    startErr,   \* Job.startErr: "nil" | "err"
    stopOnce,   \* Job.stopOnce: "idle" | "running" | "done"
    stopErr,    \* Job.stopErr: "nil" | "err"
    nreaders,   \* number of readers registered with Job.buf
    \* ---- the environment of a job
    proc,       \* the child process: "none" | "running" | "ok" | "fail" | "signal" | "reaped"
    waitPc,     \* the goroutine running Job.wait: "none" | "waiting" | "defer" | "write" | "close" | "finished"
    kills,      \* how many times Process.Kill delivered a signal for this job
    \* ---- client goroutines
    pc,         \* where each goroutine is
    call,       \* the call it is making (or made last)
    ret,        \* what its last call returned
    \* ---- one safebuffer.Buffer (SpecBuf)
    buf,        \* Buffer.buf: the bytes written so far
    bdone,      \* Buffer.done is closed
    list,       \* Readers.list: the registered readers, in order
    nwrites,    \* how many Write calls have begun
    wpc,        \* where the goroutine calling Buffer.Write is
    pos,        \* ReadersIterator.pos of the Write in progress
    wcur,       \* the reader the Write in progress got from the iterator
    \* ---- safereader.Reader objects, functions over ReaderIDs
    offset,     \* Reader.offset
    wake,       \* Reader.wake: how many times the channel has been replaced
    closed,     \* Reader.closed is closed
    \* ---- the goroutine reading from each Reader
    rpc,        \* where it is: "none" before NewReader has made the reader
    plen,       \* len(p) of the Read in progress
    ch,         \* the channel Await returned to it (as counted by wake)
    rret,       \* what its last Read returned
    got,        \* every byte its Reads have returned, in order
    \* ---- the two ByteBuffer implementations, given the same calls
    root,       \* linked chunks: node.data of each node of the chain from b.root
    size,       \* linked chunks: b.size
    sbuf,       \* slice: the bytes of b.buf
    scap,       \* slice: cap(b.buf), 0 for the nil slice
    nlog,       \* how many Write calls the ByteBuffers have had
    rd,         \* the last call both got: Write or ReadOffset, its offset and len(p)
    lret,       \* what it returned from the linked chunks
    sret,       \* what it returned from the slice
    \* ---- the re-executed binary: worker.New and Worker.StartJobChild
    cfg,        \* the Config given to worker.New
    worker,     \* the Worker: what New returned, blockDevices, and the fields of the root cgroup
    cgroups,    \* the cgroup file system: how many root and leaf directories were made
    child,      \* each goroutine calling StartJobChild: where it is and what it has done
    image,      \* the program the process runs: "worker" until syscall.Exec replaces it
    \* ---- the Buffer of pkg/safebuffer/safebuffer.go, which sends what is
    \* written to each reader over a channel, and its safereader.Readers
    fanout,     \* the Buffer: mu, len(buf), the readers in chans, jobDone, the Write calls so far
    fwriter,    \* the goroutine calling Buffer.Write: where it is, len(p), the readers left in its range
    freaders    \* each Reader with its receiver goroutine and the goroutine calling Read

jobVars == <<userID, status, done, cmdErr, exitCode, startOnce, startErr, stopOnce, stopErr, nreaders>>
envVars == <<proc, waitPc, kills>>
thrVars == <<pc, call, ret>>
wrkVars == <<jobs, nextID, jobVars, envVars, thrVars>>
bufVars == <<buf, bdone, list, nwrites, wpc, pos, wcur, offset, wake, closed, rpc, plen, ch, rret, got>>
logVars == <<root, size, sbuf, scap, nlog, rd, lret, sret>>
chdVars == <<cfg, worker, cgroups, child, image>>
fanVars == <<fanout, fwriter, freaders>>
sysVars == <<chdVars, fanVars>>
vars == <<wrkVars, bufVars, logVars, sysVars>>

NoCall == [op |-> "none", user |-> NoUser, id |-> 0]
NoRet == [err |-> "none", id |-> 0, status |-> 0, error |-> "nil", exitCode |-> <<>>, reader |-> 0]
Ret(e) == [NoRet EXCEPT !.err = e]

(***************************************************************************)
(* job.Job                                                                  *)
(***************************************************************************)
\* setStatus with the comparison turned round
setStatus_reversed(cur, st) == IF st >= cur THEN cur ELSE st

\* Job.setStatus: the value the status has after setStatus(st) when it was cur
setStatus(cur, st) == IF st <= cur THEN cur ELSE st

\* isDone doing what its name says: TRUE once done is closed
isDone_asNamed(j) == done[j]

\* Job.isDone: despite its name it reports that the job is still running
\* (done is not closed yet)
isDone(j) == ~done[j]

\* Job.Error
Error(j) == IF isDone(j) THEN "nil" ELSE cmdErr[j]

\* Job.ExitCode
ExitCode(j) == IF isDone(j) THEN <<>> ELSE exitCode[j]

NoRead == [n |-> 0, err |-> "none"]

\* what Write or ReadOffset returned: n, err and the bytes copied into p
NoResult == [n |-> 0, err |-> "none", bytes |-> <<>>]

\* the zero value of both ByteBuffer types, no call made
InitLog ==
    /\ root = <<>>
    /\ size = 0
    /\ sbuf = <<>>
    /\ scap = 0
    /\ nlog = 0
    /\ rd = [op |-> "none", off |-> 0, n |-> 0]
    /\ lret = NoResult
    /\ sret = NoResult

\* Config.CPUMax is a float32; the model counts in hundredths, so this is 1
CPUMaxOne == 100

\* the goroutines calling StartJobChild on one Worker
ChildCallers == {"p1", "p2"}

\* a Config that worker.New accepts, with every limit set
SomeConfig ==
    [ReexecCommand |-> "/proc/self/exe", CPUMax |-> 50, MemoryMax |-> 1, RIOPSMax |-> 1, WIOPSMax |-> 1]

\* a goroutine that is not inside StartJobChild and has not called it
NoChild == [pc |-> "idle", err |-> "none", steps |-> <<>>, leaf |-> 0, data |-> <<>>]

\* the Worker that worker.New(config) returns when nothing fails, with n block
\* devices: the sync.Once not used, no root cgroup
NewWorker(n) ==
    [err |-> "nil", blockDevices |-> n,
     createRootCGroupOnce |-> "idle", rootCGroupCreateErr |-> "nil", rootCGroupName |-> ""]

\* no cgroup made, no StartJobChild called
InitChild ==
    /\ cgroups = [roots |-> 0, leaves |-> 0]
    /\ child = [c \in ChildCallers |-> NoChild]
    /\ image = "worker"

\* the readers of the Buffer that fans out over channels
FanReaders == {1, 2}

\* a Reader that safereader.New has not made yet
NoFanReader ==
    [made |-> FALSE, closed |-> FALSE, dataChClosed |-> FALSE, receiver |-> "none", data |-> 0,
     buf |-> 0, off |-> 0, dataAvail |-> 0, pc |-> "idle", seen |-> 0, ret |-> [n |-> 0, err |-> "none"]]

\* the Buffer that New(jobDone) of pkg/safebuffer/safebuffer.go returns: mu
\* free, nothing written, no readers, jobDone open
InitFanout ==
    /\ fanout = [mu |-> "free", buf |-> 0, chans |-> {}, jobDone |-> FALSE, nwrites |-> 0]
    /\ fwriter = [pc |-> "idle", n |-> 0, todo |-> {}, cur |-> 0]
    /\ freaders = [r \in FanReaders |-> NoFanReader]

\* a Worker made by worker.New(SomeConfig) on a machine with one block device
InitSys ==
    /\ cfg = SomeConfig
    /\ worker = NewWorker(1)
    /\ InitChild
    /\ InitFanout

\* the buffer safebuffer.New returns: empty, no readers, done open
InitBuffer ==
    /\ buf = <<>>
    /\ bdone = FALSE
    /\ list = <<>>
    /\ nwrites = 0
    /\ wpc = "idle"
    /\ pos = -1
    /\ wcur = 0
    /\ offset = [r \in ReaderIDs |-> 0]
    /\ wake = [r \in ReaderIDs |-> 0]
    /\ closed = [r \in ReaderIDs |-> FALSE]
    /\ rpc = [r \in ReaderIDs |-> "none"]
    /\ plen = [r \in ReaderIDs |-> 0]
    /\ ch = [r \in ReaderIDs |-> 0]
    /\ rret = [r \in ReaderIDs |-> NoRead]
    /\ got = [r \in ReaderIDs |-> <<>>]

\* a Worker just built by worker.New: no jobs
InitWorker ==
    /\ jobs = {}
    /\ nextID = 0
    /\ userID = [j \in JobIDs |-> NoUser]
    /\ status = [j \in JobIDs |-> StatusUnspecified]
    /\ done = [j \in JobIDs |-> FALSE]
    /\ cmdErr = [j \in JobIDs |-> "nil"]
    /\ exitCode = [j \in JobIDs |-> <<>>]
    /\ startOnce = [j \in JobIDs |-> "idle"]
    /\ startErr = [j \in JobIDs |-> "nil"]
    /\ stopOnce = [j \in JobIDs |-> "idle"]
    /\ stopErr = [j \in JobIDs |-> "nil"]
    /\ nreaders = [j \in JobIDs |-> 0]
    /\ proc = [j \in JobIDs |-> "none"]
    /\ waitPc = [j \in JobIDs |-> "none"]
    /\ kills = [j \in JobIDs |-> 0]
    /\ pc = [t \in Threads |-> "idle"]
    /\ call = [t \in Threads |-> NoCall]
    /\ ret = [t \in Threads |-> NoRet]

Init == InitWorker /\ InitBuffer /\ InitLog /\ InitSys

(***************************************************************************)
(* worker.Worker                                                            *)
(***************************************************************************)
\* what Worker.getJob returns for "no such job" (nil, ErrJobNotFound)
NoJob == 0

\* getJob looking the id up without comparing the owner
getJob_anyUser(uid, jid) ==
    IF jid \notin jobs THEN NoJob ELSE jid

\* Worker.getJob: the job registered under jid, if uid owns it
getJob(uid, jid) ==
    IF jid \notin jobs \/ userID[jid] # uid THEN NoJob ELSE jid

\* a goroutine returns from its call with result r
Return(t, r) ==
    /\ pc' = [pc EXCEPT ![t] = "idle"]
    /\ ret' = [ret EXCEPT ![t] = r]

Goto(t, l) ==
    /\ pc' = [pc EXCEPT ![t] = l]
    /\ UNCHANGED ret

\* a StartJob that puts the Job into the map before it calls Start
StartJob_registersFirst(t, uid) ==
    /\ pc[t] = "idle"
    /\ IF uid = NoUser
       THEN /\ call' = [call EXCEPT ![t] = [op |-> "StartJob", user |-> uid, id |-> 0]]
            /\ Return(t, Ret("ErrUserIDRequired"))
            /\ UNCHANGED <<jobs, nextID, userID, status, startOnce, startErr, proc, waitPc>>
       ELSE /\ nextID < MaxJobs
            /\ nextID' = nextID + 1
            /\ LET j == nextID'
                   st == setStatus(status[j], StatusNotStarted)
               IN
               /\ call' = [call EXCEPT ![t] = [op |-> "StartJob", user |-> uid, id |-> j]]
               /\ userID' = [userID EXCEPT ![j] = uid]
               /\ startOnce' = [startOnce EXCEPT ![j] = "done"]
               /\ \/ /\ startErr' = [startErr EXCEPT ![j] = "err"]
                     /\ status' = [status EXCEPT ![j] = setStatus(st, StatusStartError)]
                     /\ jobs' = jobs \cup {j}
                     /\ Return(t, Ret("startErr"))
                     /\ UNCHANGED <<proc, waitPc>>
                  \/ /\ proc' = [proc EXCEPT ![j] = "running"]
                     /\ status' = [status EXCEPT ![j] = setStatus(st, StatusRunning)]
                     /\ waitPc' = [waitPc EXCEPT ![j] = "waiting"]
                     /\ jobs' = jobs \cup {j}
                     /\ Return(t, [Ret("nil") EXCEPT !.id = j])
                     /\ UNCHANGED startErr
    /\ UNCHANGED <<done, cmdErr, exitCode, stopOnce, stopErr, nreaders, kills, bufVars, logVars, sysVars>>

\* Worker.StartJob: job.New validates the user id, takes a fresh id, builds
\* the Job and calls setStatus(StatusNotStarted); Job.Start runs the body of
\* startOnce.Do, where cmd.Start either fails (the error is returned and the
\* job is dropped) or launches the process, the status becomes Running and
\* the wait goroutine is spawned; under w.mu the started job enters the map
\* and its id is returned. Until then no other goroutine can reach the job,
\* so the three parts are one step.
StartJob(t, uid) ==
    /\ pc[t] = "idle"
    /\ IF uid = NoUser
       THEN /\ call' = [call EXCEPT ![t] = [op |-> "StartJob", user |-> uid, id |-> 0]]
            /\ Return(t, Ret("ErrUserIDRequired"))
            /\ UNCHANGED <<jobs, nextID, userID, status, startOnce, startErr, proc, waitPc>>
       ELSE /\ nextID < MaxJobs
            /\ nextID' = nextID + 1
            /\ LET j == nextID'
                   st == setStatus(status[j], StatusNotStarted)
               IN
               /\ call' = [call EXCEPT ![t] = [op |-> "StartJob", user |-> uid, id |-> j]]
               /\ userID' = [userID EXCEPT ![j] = uid]
               /\ startOnce' = [startOnce EXCEPT ![j] = "done"]
               /\ \/ /\ startErr' = [startErr EXCEPT ![j] = "err"]
                     /\ status' = [status EXCEPT ![j] = setStatus(st, StatusStartError)]
                     /\ Return(t, Ret("startErr"))
                     /\ UNCHANGED <<jobs, proc, waitPc>>
                  \/ /\ proc' = [proc EXCEPT ![j] = "running"]
                     /\ status' = [status EXCEPT ![j] = setStatus(st, StatusRunning)]
                     /\ waitPc' = [waitPc EXCEPT ![j] = "waiting"]
                     /\ jobs' = jobs \cup {j}
                     /\ Return(t, [Ret("nil") EXCEPT !.id = j])
                     /\ UNCHANGED startErr
    /\ UNCHANGED <<done, cmdErr, exitCode, stopOnce, stopErr, nreaders, kills, bufVars, logVars, sysVars>>

(***************************************************************************)
(* The child process and the goroutine running Job.wait                     *)
(***************************************************************************)
\* the process ends by itself, with exit code 0 or with another one
ProcExit(j, how) ==
    /\ proc[j] = "running"
    /\ proc' = [proc EXCEPT ![j] = how]
    /\ UNCHANGED <<jobs, nextID, jobVars, waitPc, kills, thrVars, bufVars, logVars, sysVars>>

\* the error cmd.Wait returns for a process that ended as `how`; ioFailed is
\* TRUE when copying the output failed (the error Wait returns if the process
\* itself exited with 0)
WaitError(how, ioFailed) ==
    CASE how = "ok" -> IF ioFailed THEN "OtherError" ELSE "nil"
      [] OTHER -> "ExitError"

\* a Job.wait that stores the exit code 0 whatever cmd.Wait returned
WaitExitCode_alwaysZero(how, err) == <<0>>

\* the exit code Job.wait extracts: 0 for no error, ExitError.ExitCode() for an
\* ExitError (-1 for a process ended by a signal), none for any other error
WaitExitCode(how, err) ==
    CASE err = "nil" -> <<0>>
      [] err = "ExitError" -> IF how = "signal" THEN <<-1>> ELSE <<1>>
      [] OTHER -> <<>>

\* Job.wait: cmd.Wait returns once the process has ended; cmdErr and exitCode
\* are stored; the deferred function is left to run
WaitReap(j, ioFailed) ==
    /\ waitPc[j] = "waiting"
    /\ proc[j] \in {"ok", "fail", "signal"}
    /\ LET err == WaitError(proc[j], ioFailed) IN
        /\ cmdErr' = [cmdErr EXCEPT ![j] = err]
        /\ exitCode' = [exitCode EXCEPT ![j] = WaitExitCode(proc[j], err)]
    /\ proc' = [proc EXCEPT ![j] = "reaped"]
    /\ waitPc' = [waitPc EXCEPT ![j] = "defer"]
    /\ UNCHANGED <<jobs, nextID, userID, status, done, startOnce, startErr, stopOnce, stopErr, nreaders, kills, thrVars, bufVars, logVars, sysVars>>

\* Job.wait, deferred: setStatus(StatusCompleted) reads the status and compares
WaitSetStatus(j) ==
    /\ waitPc[j] = "defer"
    /\ waitPc' = [waitPc EXCEPT ![j] =
            IF setStatus(status[j], StatusCompleted) = status[j] THEN "close" ELSE "write"]
    /\ UNCHANGED <<jobs, nextID, jobVars, proc, kills, thrVars, bufVars, logVars, sysVars>>

\* Job.wait, deferred: setStatus(StatusCompleted) stores (j.status = st)
WaitWrite(j) ==
    /\ waitPc[j] = "write"
    /\ status' = [status EXCEPT ![j] = StatusCompleted]
    /\ waitPc' = [waitPc EXCEPT ![j] = "close"]
    /\ UNCHANGED <<jobs, nextID, userID, done, cmdErr, exitCode, startOnce, startErr, stopOnce, stopErr, nreaders, proc, kills, thrVars, bufVars, logVars, sysVars>>

\* a Worker that drops a job from its map when the job's done closes
WaitClose_evicts(j) ==
    /\ waitPc[j] = "close"
    /\ done' = [done EXCEPT ![j] = TRUE]
    /\ waitPc' = [waitPc EXCEPT ![j] = "finished"]
    /\ jobs' = jobs \ {j}
    /\ UNCHANGED <<nextID, userID, status, cmdErr, exitCode, startOnce, startErr, stopOnce, stopErr, nreaders, proc, kills, thrVars, bufVars, logVars, sysVars>>

\* the deferred function closing done before it sets the status
WaitClose_first(j) ==
    /\ waitPc[j] \in {"defer", "close"}
    /\ done' = [done EXCEPT ![j] = TRUE]
    /\ waitPc' = [waitPc EXCEPT ![j] = IF waitPc[j] = "defer" /\ status[j] < StatusCompleted THEN "write" ELSE "finished"]
    /\ UNCHANGED <<jobs, nextID, userID, status, cmdErr, exitCode, startOnce, startErr, stopOnce, stopErr, nreaders, proc, kills, thrVars, bufVars, logVars, sysVars>>

\* Job.wait, deferred: close(j.done)
WaitClose(j) ==
    /\ waitPc[j] = "close"
    /\ done' = [done EXCEPT ![j] = TRUE]
    /\ waitPc' = [waitPc EXCEPT ![j] = "finished"]
    /\ UNCHANGED <<jobs, nextID, userID, status, cmdErr, exitCode, startOnce, startErr, stopOnce, stopErr, nreaders, proc, kills, thrVars, bufVars, logVars, sysVars>>

(***************************************************************************)
(* Worker.StopJob and Job.Stop                                              *)
(***************************************************************************)
\* Worker.StopJob: getJob, then Job.Stop on the job found
StopJob(t, uid, jid) ==
    /\ pc[t] = "idle"
    /\ call' = [call EXCEPT ![t] = [op |-> "StopJob", user |-> uid, id |-> jid]]
    /\ IF getJob(uid, jid) = NoJob
       THEN Return(t, Ret("ErrJobNotFound"))
       ELSE /\ pc' = [pc EXCEPT ![t] = "stop"]
            /\ ret' = [ret EXCEPT ![t] = NoRet]
    /\ UNCHANGED <<jobs, nextID, jobVars, envVars, bufVars, logVars, sysVars>>

\* Stop without stopOnce: every caller runs the body
Stop_noOnce(t) ==
    /\ pc[t] = "stop"
    /\ LET j == call[t].id IN
       IF ~isDone(j)
       THEN /\ stopOnce' = [stopOnce EXCEPT ![j] = "done"]
            /\ Return(t, Ret(stopErr[j]))
       ELSE /\ stopOnce' = [stopOnce EXCEPT ![j] = "running"]
            /\ Goto(t, "kill")
    /\ UNCHANGED <<jobs, nextID, userID, status, done, cmdErr, exitCode, startOnce, startErr, stopErr, nreaders, envVars, call, bufVars, logVars, sysVars>>

\* Job.Stop: stopOnce.Do. A later caller returns stopErr at once; a caller
\* arriving while the first is inside waits for it; the first caller runs the
\* body, which starts by returning if the job is done.
Stop(t) ==
    /\ pc[t] = "stop"
    /\ LET j == call[t].id IN
       \/ /\ stopOnce[j] = "done"
          /\ Return(t, Ret(stopErr[j]))
          /\ UNCHANGED stopOnce
       \/ /\ stopOnce[j] = "idle"
          /\ IF ~isDone(j)
             THEN /\ stopOnce' = [stopOnce EXCEPT ![j] = "done"]
                  /\ Return(t, Ret(stopErr[j]))
             ELSE /\ stopOnce' = [stopOnce EXCEPT ![j] = "running"]
                  /\ Goto(t, "kill")
    /\ UNCHANGED <<jobs, nextID, userID, status, done, cmdErr, exitCode, startOnce, startErr, stopErr, nreaders, envVars, call, bufVars, logVars, sysVars>>

\* Stop returning the error of Kill without keeping it in stopErr
StopKill_errNotKept(t, refused) ==
    /\ pc[t] = "kill"
    /\ LET j == call[t].id IN
       /\ proc[j] \notin {"none", "reaped"}
       /\ IF refused
          THEN /\ stopOnce' = [stopOnce EXCEPT ![j] = "done"]
               /\ Return(t, Ret("err"))
               /\ UNCHANGED <<proc, kills>>
          ELSE /\ kills' = [kills EXCEPT ![j] = IF @ < 2 THEN @ + 1 ELSE @]
               /\ proc' = [proc EXCEPT ![j] = IF @ = "running" THEN "signal" ELSE @]
               /\ Goto(t, "stopwait")
               /\ UNCHANGED stopOnce
    /\ UNCHANGED <<jobs, nextID, userID, status, done, cmdErr, exitCode, startOnce, startErr, stopErr, nreaders, waitPc, call, bufVars, logVars, sysVars>>

\* Stop taking os.ErrProcessDone for a failure of Kill
StopKill_doneIsError(t, refused) ==
    /\ pc[t] = "kill"
    /\ LET j == call[t].id IN
       /\ proc[j] # "none"
       /\ IF refused \/ proc[j] = "reaped"
          THEN /\ stopErr' = [stopErr EXCEPT ![j] = "err"]
               /\ stopOnce' = [stopOnce EXCEPT ![j] = "done"]
               /\ Return(t, Ret("err"))
               /\ UNCHANGED <<proc, kills>>
          ELSE /\ kills' = [kills EXCEPT ![j] = IF @ < 2 THEN @ + 1 ELSE @]
               /\ proc' = [proc EXCEPT ![j] = IF @ = "running" THEN "signal" ELSE @]
               /\ Goto(t, "stopwait")
               /\ UNCHANGED <<stopOnce, stopErr>>
    /\ UNCHANGED <<jobs, nextID, userID, status, done, cmdErr, exitCode, startOnce, startErr, nreaders, waitPc, call, bufVars, logVars, sysVars>>

\* Stop not telling os.ErrProcessDone from success: it waits for done and sets
\* the status whatever Kill returned
StopKill_ignoreErr(t, refused) ==
    /\ pc[t] = "kill"
    /\ ~refused
    /\ LET j == call[t].id IN
        /\ proc[j] # "none"
        /\ kills' = [kills EXCEPT ![j] = IF proc[j] # "reaped" /\ @ < 2 THEN @ + 1 ELSE @]
        /\ proc' = [proc EXCEPT ![j] = IF @ = "running" THEN "signal" ELSE @]
    /\ Goto(t, "stopwait")
    /\ UNCHANGED <<jobs, nextID, jobVars, waitPc, call, bufVars, logVars, sysVars>>

\* Job.Stop: cmd.Process.Kill(). With no process (cmd.Start was not called or
\* failed, cmd.Process is nil) the call panics: Once counts the body as run
\* and the goroutine never returns. os.ErrProcessDone when the process has
\* been waited for; otherwise the signal is delivered (a running process then
\* ends by it) or, if refused is TRUE, the kernel rejects it with some other
\* error.
StopKill(t, refused) ==
    /\ pc[t] = "kill"
    /\ LET j == call[t].id IN
       CASE proc[j] = "none" ->
            /\ ~refused
            /\ stopOnce' = [stopOnce EXCEPT ![j] = "done"]
            /\ Goto(t, "panic")
            /\ UNCHANGED <<stopErr, proc, kills>>
         [] proc[j] = "reaped" ->
            /\ ~refused
            /\ stopOnce' = [stopOnce EXCEPT ![j] = "done"]
            /\ Return(t, Ret(stopErr[j]))
            /\ UNCHANGED <<stopErr, proc, kills>>
         [] OTHER ->
            IF refused
            THEN /\ stopErr' = [stopErr EXCEPT ![j] = "err"]
                 /\ stopOnce' = [stopOnce EXCEPT ![j] = "done"]
                 /\ Return(t, Ret("err"))
                 /\ UNCHANGED <<proc, kills>>
            ELSE /\ kills' = [kills EXCEPT ![j] = IF @ < 2 THEN @ + 1 ELSE @]
                 /\ proc' = [proc EXCEPT ![j] = IF @ = "running" THEN "signal" ELSE @]
                 /\ Goto(t, "stopwait")
                 /\ UNCHANGED <<stopOnce, stopErr>>
    /\ UNCHANGED <<jobs, nextID, userID, status, done, cmdErr, exitCode, startOnce, startErr, nreaders, waitPc, call, bufVars, logVars, sysVars>>

\* Stop not waiting for done
AwaitDone_skip(j) == TRUE

\* Job.Stop: <-j.done
AwaitDone(j) == done[j]

\* Job.Stop: after <-j.done, setStatus(StatusStopped) reads the status and
\* compares
StopWait(t) ==
    /\ pc[t] = "stopwait"
    /\ LET j == call[t].id IN
       /\ AwaitDone(j)
       /\ IF setStatus(status[j], StatusStopped) = status[j]
          THEN /\ stopOnce' = [stopOnce EXCEPT ![j] = "done"]
               /\ Return(t, Ret(stopErr[j]))
          ELSE /\ Goto(t, "stopwrite")
               /\ UNCHANGED stopOnce
    /\ UNCHANGED <<jobs, nextID, userID, status, done, cmdErr, exitCode, startOnce, startErr, stopErr, nreaders, envVars, call, bufVars, logVars, sysVars>>

\* Stop also dropping the exit code of the job it stopped
StopWrite_clearsExitCode(t) ==
    /\ pc[t] = "stopwrite"
    /\ LET j == call[t].id IN
       /\ status' = [status EXCEPT ![j] = StatusStopped]
       /\ exitCode' = [exitCode EXCEPT ![j] = <<>>]
       /\ stopOnce' = [stopOnce EXCEPT ![j] = "done"]
       /\ Return(t, Ret(stopErr[j]))
    /\ UNCHANGED <<jobs, nextID, userID, done, cmdErr, startOnce, startErr, stopErr, nreaders, envVars, call, bufVars, logVars, sysVars>>

\* Job.Stop: setStatus(StatusStopped) stores; the body of stopOnce.Do ends and
\* Stop returns stopErr
StopWrite(t) ==
    /\ pc[t] = "stopwrite"
    /\ LET j == call[t].id IN
       /\ status' = [status EXCEPT ![j] = StatusStopped]
       /\ stopOnce' = [stopOnce EXCEPT ![j] = "done"]
       /\ Return(t, Ret(stopErr[j]))
    /\ UNCHANGED <<jobs, nextID, userID, done, cmdErr, exitCode, startOnce, startErr, stopErr, nreaders, envVars, call, bufVars, logVars, sysVars>>

(***************************************************************************)
(* Worker.JobStatus and Worker.JobOutput                                    *)
(***************************************************************************)
\* Worker.JobStatus: getJob, then the StatusResponse is built field by field;
\* first j.Status()
JobStatus(t, uid, jid) ==
    /\ pc[t] = "idle"
    /\ call' = [call EXCEPT ![t] = [op |-> "JobStatus", user |-> uid, id |-> jid]]
    /\ IF getJob(uid, jid) = NoJob
       THEN Return(t, Ret("ErrJobNotFound"))
       ELSE /\ pc' = [pc EXCEPT ![t] = "error"]
            /\ ret' = [ret EXCEPT ![t] = [NoRet EXCEPT !.status = status[jid]]]
    /\ UNCHANGED <<jobs, nextID, jobVars, envVars, bufVars, logVars, sysVars>>

\* Worker.JobStatus: j.Error()
JobStatusError(t) ==
    /\ pc[t] = "error"
    /\ pc' = [pc EXCEPT ![t] = "exitcode"]
    /\ ret' = [ret EXCEPT ![t].error = Error(call[t].id)]
    /\ UNCHANGED <<jobs, nextID, jobVars, envVars, call, bufVars, logVars, sysVars>>

\* Worker.JobStatus: j.ExitCode(), and the response is returned
JobStatusExitCode(t) ==
    /\ pc[t] = "exitcode"
    /\ Return(t, [ret[t] EXCEPT !.exitCode = ExitCode(call[t].id), !.err = "nil"])
    /\ UNCHANGED <<jobs, nextID, jobVars, envVars, call, bufVars, logVars, sysVars>>

\* the number of readers registered with the buffers of the jobs in J
RECURSIVE Registered(_)
Registered(J) ==
    IF J = {} THEN 0
    ELSE LET j == CHOOSE x \in J : TRUE IN nreaders[j] + Registered(J \ {j})

\* Worker.JobOutput: getJob, then Job.NewOutputReader registers a new reader
\* with the job's buffer
JobOutput(t, uid, jid) ==
    /\ pc[t] = "idle"
    /\ call' = [call EXCEPT ![t] = [op |-> "JobOutput", user |-> uid, id |-> jid]]
    /\ IF getJob(uid, jid) = NoJob
       THEN /\ Return(t, Ret("ErrJobNotFound"))
            /\ UNCHANGED nreaders
       ELSE /\ Registered(JobIDs) < MaxJobReaders
            /\ nreaders' = [nreaders EXCEPT ![jid] = @ + 1]
            /\ Return(t, [Ret("nil") EXCEPT !.reader = nreaders'[jid]])
    /\ UNCHANGED <<jobs, nextID, userID, status, done, cmdErr, exitCode, startOnce, startErr, stopOnce, stopErr, envVars, bufVars, logVars, sysVars>>

(***************************************************************************)
(* The methods of one Job, called directly (SpecJob)                        *)
(***************************************************************************)
\* the Job of SpecJob
TheJob == 1

\* Job.Start: the first caller runs the body of startOnce.Do, where cmd.Start
\* either fails or launches the process, and then the status becomes Running
\* and the wait goroutine is spawned; every other caller gets startErr or
\* ErrAlreadyStarted
JobStart(t) ==
    /\ pc[t] = "idle"
    /\ call' = [call EXCEPT ![t] = [op |-> "Start", user |-> NoUser, id |-> TheJob]]
    /\ LET j == TheJob IN
       IF startOnce[j] = "idle"
       THEN /\ startOnce' = [startOnce EXCEPT ![j] = "done"]
            /\ \/ /\ startErr' = [startErr EXCEPT ![j] = "err"]
                  /\ status' = [status EXCEPT ![j] = setStatus(status[j], StatusStartError)]
                  /\ Return(t, Ret("startErr"))
                  /\ UNCHANGED <<proc, waitPc>>
               \/ /\ proc' = [proc EXCEPT ![j] = "running"]
                  /\ status' = [status EXCEPT ![j] = setStatus(status[j], StatusRunning)]
                  /\ waitPc' = [waitPc EXCEPT ![j] = "waiting"]
                  /\ Return(t, Ret("nil"))
                  /\ UNCHANGED startErr
       ELSE /\ Return(t, Ret(IF startErr[j] # "nil" THEN "startErr" ELSE "ErrAlreadyStarted"))
            /\ UNCHANGED <<startOnce, startErr, status, proc, waitPc>>
    /\ UNCHANGED <<jobs, nextID, userID, done, cmdErr, exitCode, stopOnce, stopErr, nreaders, kills, bufVars, logVars, sysVars>>

\* Job.Stop is called
JobStop(t) ==
    /\ pc[t] = "idle"
    /\ call' = [call EXCEPT ![t] = [op |-> "Stop", user |-> NoUser, id |-> TheJob]]
    /\ pc' = [pc EXCEPT ![t] = "stop"]
    /\ ret' = [ret EXCEPT ![t] = NoRet]
    /\ UNCHANGED <<jobs, nextID, jobVars, envVars, bufVars, logVars, sysVars>>

\* the steps inside Job.Stop and Job.wait, and the process
JobSteps(T, J) ==
    \/ \E j \in J, how \in {"ok", "fail"} : ProcExit(j, how)
    \/ \E j \in J, ioFailed \in BOOLEAN : WaitReap(j, ioFailed)
    \/ \E j \in J : WaitSetStatus(j)
    \/ \E j \in J : WaitWrite(j)
    \/ \E j \in J : WaitClose(j)
    \/ \E t \in T : Stop(t)
    \/ \E t \in T, refused \in BOOLEAN : StopKill(t, refused)
    \/ \E t \in T : StopWait(t)
    \/ \E t \in T : StopWrite(t)

Next ==
    \/ \E t \in Clients, uid \in Users \cup {NoUser} : StartJob(t, uid)
    \/ \E t \in Clients, uid \in Users, jid \in JobIDs : StopJob(t, uid, jid)
    \/ \E t \in Clients, uid \in Users, jid \in JobIDs : JobStatus(t, uid, jid)
    \/ \E t \in Clients : JobStatusError(t)
    \/ \E t \in Clients : JobStatusExitCode(t)
    \/ \E t \in Clients, uid \in Users, jid \in JobIDs : JobOutput(t, uid, jid)
    \/ JobSteps(Clients, JobIDs)

Spec == Init /\ [][Next]_vars

\* job.New("u", ...) has built the one Job; no Worker holds it
InitJob ==
    /\ jobs = {}
    /\ nextID = TheJob
    /\ userID = [j \in JobIDs |-> IF j = TheJob THEN "u" ELSE NoUser]
    /\ status = [j \in JobIDs |->
            IF j = TheJob THEN setStatus(StatusUnspecified, StatusNotStarted) ELSE StatusUnspecified]
    /\ done = [j \in JobIDs |-> FALSE]
    /\ cmdErr = [j \in JobIDs |-> "nil"]
    /\ exitCode = [j \in JobIDs |-> <<>>]
    /\ startOnce = [j \in JobIDs |-> "idle"]
    /\ startErr = [j \in JobIDs |-> "nil"]
    /\ stopOnce = [j \in JobIDs |-> "idle"]
    /\ stopErr = [j \in JobIDs |-> "nil"]
    /\ nreaders = [j \in JobIDs |-> 0]
    /\ proc = [j \in JobIDs |-> "none"]
    /\ waitPc = [j \in JobIDs |-> "none"]
    /\ kills = [j \in JobIDs |-> 0]
    /\ pc = [t \in Threads |-> "idle"]
    /\ call = [t \in Threads |-> NoCall]
    /\ ret = [t \in Threads |-> NoRet]
    /\ InitBuffer
    /\ InitLog /\ InitSys

NextJob ==
    \/ \E t \in Callers : JobStart(t)
    \/ \E t \in Callers : JobStop(t)
    \/ JobSteps(Callers, {TheJob})

SpecJob == InitJob /\ [][NextJob]_vars

(***************************************************************************)
(* Properties of the Worker (Spec)                                          *)
(***************************************************************************)
\* the calls that name a job
JobCalls == {"StopJob", "JobStatus", "JobOutput"}

\* the jobs of the map that belong to user u
Owned(u) == {j \in jobs : userID[j] = u}

\* everything there is to one job: its fields, its process, its wait goroutine
JobState(j) ==
    <<userID[j], status[j], done[j], cmdErr[j], exitCode[j], startOnce[j], startErr[j],
      stopOnce[j], stopErr[j], nreaders[j], proc[j], waitPc[j], kills[j]>>

\* this step is a step of goroutine t
Moved(t) == <<pc[t], call[t], ret[t]>>' # <<pc[t], call[t], ret[t]>>

\* this step is goroutine t calling StopJob, JobStatus or JobOutput
Calls(t) == pc[t] = "idle" /\ Moved(t) /\ call'[t].op \in JobCalls

\* C5: a StopJob, JobStatus or JobOutput call naming an id that is not in the
\* map or a job of another user returns ErrJobNotFound at once and changes
\* nothing: no signal is sent, no status changes, no reader is registered.
C5_NotOwnerNoEffect ==
    [][\A t \in Clients :
          (Calls(t) /\ call'[t].id \notin Owned(call'[t].user))
              => /\ pc'[t] = "idle"
                 /\ ret'[t] = Ret("ErrJobNotFound")
                 /\ UNCHANGED <<jobs, nextID, jobVars, envVars>>]_vars

\* user v asked to stop the running job of user u: ErrJobNotFound, and the job
\* runs on with no signal sent
C5_Witness ==
    \E t \in Clients :
        /\ pc[t] = "idle"
        /\ call[t].op = "StopJob"
        /\ call[t].id \in jobs
        /\ userID[call[t].id] # call[t].user
        /\ ret[t] = Ret("ErrJobNotFound")
        /\ status[call[t].id] = StatusRunning
        /\ proc[call[t].id] = "running"
        /\ kills[call[t].id] = 0

InStop(t) == pc[t] \in {"stop", "kill", "stopwait", "stopwrite"}

\* C1: whatever the interleaving of Start, the wait goroutine and the Stop
\* calls, no step lowers the status of a job: every change is to a higher
\* value in the order NotStarted < Running < Completed < Stopped.
C1_StatusNeverDecreases ==
    [][\A j \in JobIDs :
          /\ status'[j] >= status[j]
          /\ StatusNotStarted < StatusRunning
          /\ StatusRunning < StatusCompleted
          /\ StatusCompleted < StatusStopped]_vars

\* a job that went through NotStarted, Running and Completed to Stopped
C1_Witness ==
    /\ status[TheJob] = StatusStopped
    /\ waitPc[TheJob] = "finished"
    /\ exitCode[TheJob] = <<-1>>

\* C7: when a Stop call returns on a job to which the kill signal has been
\* delivered, done is closed and the status is Stopped; this is so for the
\* call that sent the signal and for every other Stop call on the job.
C7_StopReturnsStopped ==
    [][\A t \in Threads :
          (InStop(t) /\ pc'[t] = "idle" /\ kills'[call[t].id] >= 1)
              => (done'[call[t].id] /\ status'[call[t].id] = StatusStopped)]_vars

\* two Stop calls that overlapped have both returned from a job that was killed
C7_Witness ==
    \E t1, t2 \in Callers :
        /\ t1 # t2
        /\ pc[t1] = "idle" /\ call[t1].op = "Stop" /\ ret[t1].err = "nil"
        /\ pc[t2] = "idle" /\ call[t2].op = "Stop" /\ ret[t2].err = "nil"
        /\ kills[TheJob] = 1
        /\ status[TheJob] = StatusStopped

\* C8: the status is Stopped only if a Stop call delivered the kill signal,
\* and the signal is only ever delivered while done is open; a job never
\* stopped, or found finished by its first Stop call, does not get to Stopped.
C8_StoppedOnlyByKill ==
    [][\A j \in JobIDs :
          /\ status'[j] = StatusStopped => kills'[j] >= 1
          /\ kills'[j] # kills[j] => ~done[j] /\ ~done'[j]]_vars

\* the first Stop call found the job finished: it returned and the job stays
\* Completed
C8_Witness ==
    /\ stopOnce[TheJob] = "done"
    /\ kills[TheJob] = 0
    /\ done[TheJob]
    /\ status[TheJob] = StatusCompleted
    /\ \E t \in Callers : pc[t] = "idle" /\ call[t].op = "Stop" /\ ret[t].err = "nil"

\* C9: when done is closed, cmd.Wait has returned and the wait error and the
\* exit code it gave are stored, and the status is Completed or Stopped, never
\* NotStarted or Running.
C9_DoneImpliesStored ==
    \A j \in JobIDs :
        done[j] =>
            /\ proc[j] = "reaped"
            /\ \/ cmdErr[j] = "nil" /\ exitCode[j] = <<0>>
               \/ cmdErr[j] = "ExitError" /\ exitCode[j] \in {<<1>>, <<-1>>}
               \/ cmdErr[j] = "OtherError" /\ exitCode[j] = <<>>
            /\ status[j] \in {StatusCompleted, StatusStopped}

\* done is closed on a job that failed by itself
C9_Witness ==
    /\ done[TheJob]
    /\ cmdErr[TheJob] = "ExitError"
    /\ exitCode[TheJob] = <<1>>
    /\ status[TheJob] = StatusCompleted

\* C10 as stated: once done is closed the status does not change any more.
C10_StatusFinalAtDone ==
    [][\A j \in JobIDs : done[j] => status'[j] = status[j]]_vars

\* C10 amended: once done is closed the status is Completed or Stopped and
\* changes at most once more, from Completed to Stopped, by the Stop call that
\* delivered the kill signal and has not returned yet; with no such call in
\* progress the status read after done is final.
C10_StatusAfterDone ==
    [][\A j \in JobIDs :
          done[j] =>
              \/ status'[j] = status[j]
              \/ /\ status[j] = StatusCompleted
                 /\ status'[j] = StatusStopped
                 /\ kills[j] >= 1
                 /\ stopOnce[j] = "running"]_vars

\* done is closed, the status reads Completed, and the Stop call that killed
\* the job is about to store Stopped
C10_Witness ==
    /\ done[TheJob]
    /\ status[TheJob] = StatusCompleted
    /\ \E t \in Callers : pc[t] = "stopwrite"

\* a call of Job.Stop by goroutine t has returned
StopReturned(t) == pc[t] = "idle" /\ call[t].op \in {"Stop", "StopJob"} /\ ret[t].err # "none"

\* C11: once done is closed, Error() and ExitCode() give the same values in
\* every later state, whatever Stop calls and status changes follow.
C11_ResultStableAfterDone ==
    [][\A j \in JobIDs :
          done[j] => /\ Error(j)' = Error(j)
                     /\ ExitCode(j)' = ExitCode(j)
                     /\ done'[j]]_vars

\* a killed job was stopped after done had closed: Error() and ExitCode() still
\* give what cmd.Wait gave
C11_Witness ==
    /\ done[TheJob]
    /\ stopOnce[TheJob] = "done"
    /\ status[TheJob] = StatusStopped
    /\ Error(TheJob) = "ExitError"
    /\ ExitCode(TheJob) = <<-1>>

\* C12: the process is launched and the wait goroutine spawned at most once,
\* by the first Start call, and every Start call after the first returns
\* ErrAlreadyStarted.
C12_StartOnce ==
    [][\A j \in JobIDs :
          /\ (proc'[j] = "running" /\ proc[j] # "running") => startOnce[j] = "idle"
          /\ (waitPc'[j] = "waiting" /\ waitPc[j] # "waiting") => startOnce[j] = "idle"
          /\ \A t \in Callers :
                (pc[t] = "idle" /\ Moved(t) /\ call'[t].op = "Start" /\ call'[t].id = j
                    /\ startOnce[j] = "done")
                    => ret'[t].err = "ErrAlreadyStarted"]_vars

\* C13: whatever the number of Stop calls on a job, one after the other or at
\* the same time, the kill signal is sent to its process at most once.
C13_KillAtMostOnce ==
    \A j \in JobIDs : kills[j] <= 1

\* three Stop calls on a running job have returned and one signal was sent
C13_Witness ==
    /\ kills[TheJob] = 1
    /\ \A t \in Callers : StopReturned(t)

\* C14: stopping is idempotent. A Stop call returns the error every Stop call
\* on the job that returned before it returned, and once a first call has
\* finished no step of a later Stop call changes the job: its status, exit
\* code, error, done and process stay as they were.
C14_StopIdempotent ==
    [][\A t \in Threads :
          /\ (InStop(t) /\ pc'[t] = "idle")
                => \A t2 \in Threads \ {t} :
                      (StopReturned(t2) /\ call[t2].id = call[t].id) => ret'[t].err = ret[t2].err
          /\ (InStop(t) /\ Moved(t) /\ stopOnce[call[t].id] = "done")
                => /\ pc'[t] = "idle"
                   /\ ret'[t].err = stopErr[call[t].id]
                   /\ UNCHANGED <<status, done, cmdErr, exitCode, stopErr, stopOnce, envVars>>]_vars

\* Kill failed in the first Stop call; the calls after it returned that error
\* too and the job runs on
C14_Witness ==
    /\ \A t \in Callers : StopReturned(t) /\ ret[t].err = "err"
    /\ kills[TheJob] = 0
    /\ status[TheJob] = StatusRunning

\* C15: the first Stop call on a job whose done is closed returns nil at once,
\* sends no signal and leaves status (Completed), exit code and error as they
\* are; a job to which no signal was sent is never Stopped.
C15_StopAfterDoneNoOp ==
    [][\A t \in Threads :
          /\ (pc[t] = "stop" /\ Moved(t)
                /\ stopOnce[call[t].id] = "idle" /\ done[call[t].id])
                => /\ pc'[t] = "idle"
                   /\ ret'[t].err = "nil"
                   /\ status[call[t].id] = StatusCompleted
                   /\ UNCHANGED <<status, done, cmdErr, exitCode, stopErr, envVars>>
          /\ \A j \in JobIDs : kills'[j] = 0 => status'[j] # StatusStopped]_vars

\* a job that ended with exit code 0 before Stop was first called: Stop has
\* returned nil and the job is Completed
C15_Witness ==
    /\ \E t \in Callers : StopReturned(t) /\ ret[t].err = "nil"
    /\ cmdErr[TheJob] = "nil"
    /\ exitCode[TheJob] = <<0>>
    /\ status[TheJob] = StatusCompleted
    /\ kills[TheJob] = 0
    /\ proc[TheJob] = "reaped"

\* C16: when the first Stop call finds done open but Kill answers that the
\* process is done already (it has been waited for), Stop returns nil and
\* sets nothing, and the job ends Completed, not Stopped.
C16_ProcessDoneNoOp ==
    [][\A t \in Threads :
          /\ (pc[t] = "kill" /\ Moved(t) /\ proc[call[t].id] = "reaped")
                => /\ pc'[t] = "idle"
                   /\ ret'[t].err = "nil"
                   /\ UNCHANGED <<status, done, cmdErr, exitCode, stopErr, envVars>>
          /\ \A j \in JobIDs :
                (done'[j] /\ kills'[j] = 0) => status'[j] = StatusCompleted]_vars

\* Stop lost the race: it returned nil while the wait goroutine had yet to set
\* the status, which is still Running
C16_Witness ==
    /\ \E t \in Callers : StopReturned(t) /\ ret[t].err = "nil"
    /\ stopOnce[TheJob] = "done"
    /\ stopErr[TheJob] = "nil"
    /\ kills[TheJob] = 0
    /\ status[TheJob] = StatusRunning
    /\ proc[TheJob] = "reaped"
    /\ ~done[TheJob]

(***************************************************************************)
(* safebuffer.Buffer, safebuffer.Readers and safereader.Reader (SpecBuf)    *)
(***************************************************************************)
\* everything but the buffer
RestUnchanged == UNCHANGED <<wrkVars, logVars, sysVars>>

\* a panic in the goroutine calling Write ends the program
Alive == wpc # "panic"

\* the p of the Write that appends n bytes to a log of length len: each byte
\* carries its position in the log, so that any two bytes of the log differ
Chunk(len, n) == [i \in 1..n |-> len + i]

Min(a, b) == IF a <= b THEN a ELSE b

\* ReadOffset copying from the start of the log instead of from the offset
ReadOffset_fromStart(data, off, n) ==
    IF n = 0 THEN [n |-> 0, err |-> "nil", bytes |-> <<>>]
    ELSE IF Len(data) <= off THEN [n |-> 0, err |-> "EOF", bytes |-> <<>>]
    ELSE LET c == Min(n, Len(data)) IN
         [n |-> c, err |-> "nil", bytes |-> SubSeq(data, 1, c)]

\* Buffer.ReadOffset(off, p) with len(p) = n on the bytes data: the count, the
\* error and the bytes copied into p
ReadOffset(data, off, n) ==
    IF n = 0 THEN [n |-> 0, err |-> "nil", bytes |-> <<>>]
    ELSE IF Len(data) <= off THEN [n |-> 0, err |-> "EOF", bytes |-> <<>>]
    ELSE LET c == Min(n, Len(data) - off) IN
         [n |-> c, err |-> "nil", bytes |-> SubSeq(data, off + 1, off + c)]

\* Buffer.NewReader: safereader.New and Readers.Add
NewReader(r) ==
    /\ Alive
    /\ rpc[r] = "none"
    /\ \A q \in ReaderIDs : q < r => rpc[q] # "none"
    /\ rpc' = [rpc EXCEPT ![r] = "idle"]
    /\ list' = Append(list, r)
    /\ UNCHANGED <<buf, bdone, nwrites, wpc, pos, wcur, offset, wake, closed, plen, ch, rret, got>>
    /\ RestUnchanged

\* Reader.IsClosed
IsClosed(r) == closed[r]

\* a jobIsDone that reports the job done while done is still open
jobIsDone_always == TRUE

\* Reader.jobIsDone
jobIsDone == bdone

\* Reader.Close: closeOnce.Do(r.close), so the first call closes the channel
\* closed and every other call finds it closed and leaves it so
Close(r) ==
    /\ Alive
    /\ rpc[r] # "none"
    /\ closed' = [closed EXCEPT ![r] = TRUE]
    /\ UNCHANGED <<buf, bdone, list, nwrites, wpc, pos, wcur, offset, wake, rpc, plen, ch, rret, got>>
    /\ RestUnchanged

\* the Read of reader r returns (n, err)
ReadReturn(r, n, err) ==
    /\ rpc' = [rpc EXCEPT ![r] = "idle"]
    /\ rret' = [rret EXCEPT ![r] = [n |-> n, err |-> err]]
    /\ plen' = [plen EXCEPT ![r] = 0]

\* a Read that enters the loop without looking at IsClosed
Read_noIsClosed(r, n) ==
    /\ Alive
    /\ rpc[r] = "idle"
    /\ rpc' = [rpc EXCEPT ![r] = "readOffset"]
    /\ plen' = [plen EXCEPT ![r] = n]
    /\ rret' = [rret EXCEPT ![r] = NoRead]
    /\ UNCHANGED <<buf, bdone, list, nwrites, wpc, pos, wcur, offset, wake, closed, ch, got>>
    /\ RestUnchanged

\* Reader.Read(p) with len(p) = n is called: a closed reader returns
\* ErrReaderClosed, any other enters the loop
Read(r, n) ==
    /\ Alive
    /\ rpc[r] = "idle"
    /\ IF IsClosed(r)
       THEN ReadReturn(r, 0, "ErrReaderClosed")
       ELSE /\ rpc' = [rpc EXCEPT ![r] = "readOffset"]
            /\ plen' = [plen EXCEPT ![r] = n]
            /\ rret' = [rret EXCEPT ![r] = NoRead]
    /\ UNCHANGED <<buf, bdone, list, nwrites, wpc, pos, wcur, offset, wake, closed, ch, got>>
    /\ RestUnchanged

\* Reader.readOffset: under offsetMu, Buffer.ReadOffset at the reader's offset;
\* without an error the offset advances by n and Read returns the bytes
ReadReadOffset(r) ==
    /\ Alive
    /\ rpc[r] = "readOffset"
    /\ LET res == ReadOffset(buf, offset[r], plen[r]) IN
       IF res.err = "nil"
       THEN /\ offset' = [offset EXCEPT ![r] = @ + res.n]
            /\ got' = [got EXCEPT ![r] = @ \o res.bytes]
            /\ ReadReturn(r, res.n, "nil")
       ELSE /\ rpc' = [rpc EXCEPT ![r] = "jobIsDone"]
            /\ UNCHANGED <<offset, got, rret, plen>>
    /\ UNCHANGED <<buf, bdone, list, nwrites, wpc, pos, wcur, wake, closed, ch>>
    /\ RestUnchanged

\* Reader.Read after io.EOF: with the job done, Read returns (0, io.EOF)
ReadJobIsDone(r) ==
    /\ Alive
    /\ rpc[r] = "jobIsDone"
    /\ IF jobIsDone
       THEN ReadReturn(r, 0, "EOF")
       ELSE /\ rpc' = [rpc EXCEPT ![r] = "Await"]
            /\ UNCHANGED <<rret, plen>>
    /\ UNCHANGED <<buf, bdone, list, nwrites, wpc, pos, wcur, offset, wake, closed, ch, got>>
    /\ RestUnchanged

\* Reader.Await: the channel that is the reader's wake channel now
Await(r) == wake[r]

\* Reader.Read enters the select: r.Await() is evaluated
ReadAwait(r) ==
    /\ Alive
    /\ rpc[r] = "Await"
    /\ ch' = [ch EXCEPT ![r] = Await(r)]
    /\ rpc' = [rpc EXCEPT ![r] = "select"]
    /\ UNCHANGED <<buf, bdone, list, nwrites, wpc, pos, wcur, offset, wake, closed, plen, rret, got>>
    /\ RestUnchanged

\* the channel c of reader r has been closed by Wake
Fired(r, c) == c < wake[r]

\* a select without the case <-r.Done()
ReadSelect_noDone(r) ==
    /\ Alive
    /\ rpc[r] = "select"
    /\ \/ /\ Fired(r, ch[r])
          /\ rpc' = [rpc EXCEPT ![r] = "readOffset"]
          /\ UNCHANGED <<rret, plen>>
       \/ /\ closed[r]
          /\ ReadReturn(r, 0, "ErrReaderClosed")
    /\ UNCHANGED <<buf, bdone, list, nwrites, wpc, pos, wcur, offset, wake, closed, ch, got>>
    /\ RestUnchanged

\* Reader.Read in the select: one of the cases that are ready is taken
ReadSelect(r) ==
    /\ Alive
    /\ rpc[r] = "select"
    /\ \/ /\ Fired(r, ch[r])
          /\ rpc' = [rpc EXCEPT ![r] = "readOffset"]
          /\ UNCHANGED <<rret, plen>>
       \/ /\ closed[r]
          /\ ReadReturn(r, 0, "ErrReaderClosed")
       \/ /\ bdone
          /\ ReadReturn(r, 0, "EOF")
    /\ UNCHANGED <<buf, bdone, list, nwrites, wpc, pos, wcur, offset, wake, closed, ch, got>>
    /\ RestUnchanged

\* ReadersIterator.deleteNoLock: the list and pos afterwards
deleteNoLock(l, p) ==
    IF p >= Len(l) THEN [list |-> l, pos |-> p]
    ELSE [list |-> SubSeq(l, 1, p) \o SubSeq(l, p + 2, Len(l)), pos |-> p - 1]

\* ReadersIterator.nextNoLock: the list, pos and the result afterwards
RECURSIVE nextNoLock(_, _)
nextNoLock(l, p) ==
    IF p + 1 < Len(l)
    THEN IF IsClosed(l[p + 2])
         THEN LET d == deleteNoLock(l, p + 1) IN nextNoLock(d.list, d.pos)
         ELSE [list |-> l, pos |-> p + 1, ok |-> TRUE]
    ELSE [list |-> l, pos |-> p, ok |-> FALSE]

\* Buffer.Write(p) with len(p) = n: under bufMu the bytes are appended; the
\* iterator over the readers is made
Write(n) ==
    /\ Alive
    /\ wpc = "idle"
    /\ ~bdone
    /\ nwrites < MaxWrites
    /\ nwrites' = nwrites + 1
    /\ buf' = buf \o Chunk(Len(buf), n)
    /\ pos' = -1
    /\ wpc' = "Next"
    /\ UNCHANGED <<bdone, list, wcur, offset, wake, closed, rpc, plen, ch, rret, got>>
    /\ RestUnchanged

\* Buffer.Write: it.Next(); FALSE ends the loop and Write returns
WriteNext ==
    /\ wpc = "Next"
    /\ LET nx == nextNoLock(list, pos) IN
       /\ list' = nx.list
       /\ pos' = nx.pos
       /\ wpc' = IF nx.ok THEN "Reader" ELSE "idle"
    /\ UNCHANGED <<buf, bdone, nwrites, wcur, offset, wake, closed, rpc, plen, ch, rret, got>>
    /\ RestUnchanged

\* Buffer.Write: it.Reader() reads list[pos] under the read lock; nil when pos
\* is past the end (reader.IsClosed() then dereferences nil), and an index
\* below 0 is out of range: both panic
WriteReader ==
    /\ wpc = "Reader"
    /\ IF pos >= Len(list) \/ pos < 0
       THEN /\ wpc' = "panic"
            /\ UNCHANGED wcur
       ELSE /\ wcur' = list[pos + 1]
            /\ wpc' = "ReaderIsClosed"
    /\ UNCHANGED <<buf, bdone, list, nwrites, pos, offset, wake, closed, rpc, plen, ch, rret, got>>
    /\ RestUnchanged

\* Buffer.Write: it.Reader() returns the reader unless it is closed
WriteReaderIsClosed ==
    /\ wpc = "ReaderIsClosed"
    /\ wpc' = IF IsClosed(wcur) THEN "ReaderDelete" ELSE "IsClosed"
    /\ UNCHANGED <<buf, bdone, list, nwrites, pos, wcur, offset, wake, closed, rpc, plen, ch, rret, got>>
    /\ RestUnchanged

\* Buffer.Write: it.Reader() deletes the closed reader and looks again
WriteReaderDelete ==
    /\ wpc = "ReaderDelete"
    /\ LET d == deleteNoLock(list, pos) IN
       /\ list' = d.list
       /\ pos' = d.pos
    /\ wpc' = "Reader"
    /\ UNCHANGED <<buf, bdone, nwrites, wcur, offset, wake, closed, rpc, plen, ch, rret, got>>
    /\ RestUnchanged

\* Buffer.Write: reader.IsClosed() on the reader the iterator gave
WriteIsClosed ==
    /\ wpc = "IsClosed"
    /\ wpc' = IF IsClosed(wcur) THEN "Delete" ELSE "Wake"
    /\ UNCHANGED <<buf, bdone, list, nwrites, pos, wcur, offset, wake, closed, rpc, plen, ch, rret, got>>
    /\ RestUnchanged

\* Buffer.Write: it.Delete() and the loop goes on
WriteDelete ==
    /\ wpc = "Delete"
    /\ LET d == deleteNoLock(list, pos) IN
       /\ list' = d.list
       /\ pos' = d.pos
    /\ wpc' = "Next"
    /\ UNCHANGED <<buf, bdone, nwrites, wcur, offset, wake, closed, rpc, plen, ch, rret, got>>
    /\ RestUnchanged

\* Reader.Wake: the wake channel is closed and replaced by a new one
Wake(r) == [wake EXCEPT ![r] = @ + 1]

\* Buffer.Write: reader.Wake() and the loop goes on
WriteWake ==
    /\ wpc = "Wake"
    /\ wake' = Wake(wcur)
    /\ wpc' = "Next"
    /\ UNCHANGED <<buf, bdone, list, nwrites, pos, wcur, offset, closed, rpc, plen, ch, rret, got>>
    /\ RestUnchanged

\* the done channel given to safebuffer.New closes: Job.wait closes it after
\* cmd.Wait has returned, and cmd.Wait returns after the goroutine copying the
\* output has made its last Write
CloseDone ==
    /\ Alive
    /\ wpc = "idle"
    /\ ~bdone
    /\ bdone' = TRUE
    /\ UNCHANGED <<buf, list, nwrites, wpc, pos, wcur, offset, wake, closed, rpc, plen, ch, rret, got>>
    /\ RestUnchanged

(***************************************************************************)
(* Properties of the buffer and its readers (SpecBuf)                       *)
(***************************************************************************)
\* this step is a Read of reader r returning
Returns(r) == rpc[r] # "idle" /\ rpc[r] # "none" /\ rpc'[r] = "idle"

\* C2: a reader that is not closed and has got io.EOF from Read has returned
\* every byte written to the buffer (done closes after the last Write, so the
\* log is whole by then): its bytes are the log.
C2_EOFAfterWholeLog ==
    \A r \in ReaderIDs :
        (rpc[r] = "idle" /\ rret[r].err = "EOF" /\ ~closed[r]) => got[r] = buf

\* C3: no step lowers the offset of a reader; a Read that returns n moves the
\* offset forward by n, and returns n more bytes; the bytes a reader has
\* returned so far are the first `offset` bytes of the log.
C3_OffsetAndPrefix ==
    [][\A r \in ReaderIDs :
          /\ offset'[r] >= offset[r]
          /\ Returns(r) =>
                /\ offset'[r] = offset[r] + rret'[r].n
                /\ Len(got'[r]) = Len(got[r]) + rret'[r].n
          /\ offset'[r] <= Len(buf')
          /\ got'[r] = SubSeq(buf', 1, offset'[r])]_vars

\* a reader took a log of two bytes in two Reads of one byte
C3_Witness ==
    \E r \in ReaderIDs :
        /\ rpc[r] = "idle"
        /\ rret[r] = [n |-> 1, err |-> "nil"]
        /\ offset[r] = 2
        /\ got[r] = <<1, 2>>

\* C4: no wakeup is lost. A reader that waits in the select of Read with none
\* of its cases ready, while no Write is in progress, has read the whole log:
\* had a Write completed between its ReadOffset and its waiting, it would not
\* be asleep.
C4_NoLostWakeup ==
    \A r \in ReaderIDs :
        (rpc[r] = "select" /\ ~Fired(r, ch[r]) /\ ~closed[r] /\ ~bdone /\ wpc = "idle")
            => Len(buf) <= offset[r]

InitBuf == InitWorker /\ InitBuffer /\ InitLog /\ InitSys

NextBuf ==
    \/ \E r \in ReaderIDs : NewReader(r)
    \/ \E r \in ReaderIDs : Close(r)
    \/ \E r \in ReaderIDs, n \in DstLens : Read(r, n)
    \/ \E r \in ReaderIDs : ReadReadOffset(r)
    \/ \E r \in ReaderIDs : ReadJobIsDone(r)
    \/ \E r \in ReaderIDs : ReadAwait(r)
    \/ \E r \in ReaderIDs : ReadSelect(r)
    \/ \E n \in ChunkLens : Write(n)
    \/ WriteNext
    \/ WriteReader
    \/ WriteReaderIsClosed
    \/ WriteReaderDelete
    \/ WriteIsClosed
    \/ WriteDelete
    \/ WriteWake
    \/ CloseDone

SpecBuf == InitBuf /\ [][NextBuf]_vars

\* ------------------------------------------------------------------------
\* Two readers of one Buffer (TestSafeBuffer/multiple-readers)
\* ------------------------------------------------------------------------

\* r0 and r1 of the test
ReaderPair == {1, 2}

\* safebuffer.New(jobDone) with no reader yet, and the two Reader objects that
\* NewReader will hand out
InitPair ==
    /\ InitWorker
    /\ InitLog /\ InitSys
    /\ buf = <<>>
    /\ bdone = FALSE
    /\ list = <<>>
    /\ nwrites = 0
    /\ wpc = "idle"
    /\ pos = -1
    /\ wcur = 0
    /\ offset = [r \in ReaderPair |-> 0]
    /\ wake = [r \in ReaderPair |-> 0]
    /\ closed = [r \in ReaderPair |-> FALSE]
    /\ rpc = [r \in ReaderPair |-> "none"]
    /\ plen = [r \in ReaderPair |-> 0]
    /\ ch = [r \in ReaderPair |-> 0]
    /\ rret = [r \in ReaderPair |-> NoRead]
    /\ got = [r \in ReaderPair |-> <<>>]

NextPair ==
    \/ \E r \in ReaderPair : NewReader(r)
    \/ \E r \in ReaderPair : Close(r)
    \/ \E r \in ReaderPair, n \in DstLens : Read(r, n)
    \/ \E r \in ReaderPair : ReadReadOffset(r)
    \/ \E r \in ReaderPair : ReadJobIsDone(r)
    \/ \E r \in ReaderPair : ReadAwait(r)
    \/ \E r \in ReaderPair : ReadSelect(r)
    \/ \E n \in ChunkLens : Write(n)
    \/ WriteNext
    \/ WriteReader
    \/ WriteReaderIsClosed
    \/ WriteReaderDelete
    \/ WriteIsClosed
    \/ WriteDelete
    \/ WriteWake
    \/ CloseDone

SpecPair == InitPair /\ [][NextPair]_vars

\* reader r is not closed and its last Read returned io.EOF
AtEOF(r) == rpc[r] = "idle" /\ rret[r].err = "EOF" /\ ~closed[r]

\* C17: two readers of one buffer that are not closed and have both got io.EOF
\* have returned the same bytes, whenever each of them was created.
C17_ReadersAgree ==
    \A r1 \in ReaderPair, r2 \in ReaderPair :
        (AtEOF(r1) /\ AtEOF(r2)) => got[r1] = got[r2]

\* C18: a Read with a non-empty p on a reader that was open at the call
\* returns at least one byte and no error, or (0, io.EOF), or
\* (0, ErrReaderClosed), and nothing else; and no Read returns from a state
\* where the log is exhausted for the reader, done is open and the reader is
\* not closed.
C18_ReadOutcomes ==
    [][\A r \in ReaderIDs :
          (Returns(r) /\ plen[r] > 0) =>
              /\ \/ rret'[r].n >= 1 /\ rret'[r].err = "nil"
                 \/ rret'[r] = [n |-> 0, err |-> "EOF"]
                 \/ rret'[r] = [n |-> 0, err |-> "ErrReaderClosed"]
              /\ ~(Len(buf) <= offset[r] /\ ~bdone /\ ~closed[r])]_vars

\* a Read has returned a byte to an open reader after the reader was woken by
\* a Write, with done still open
C18_Witness ==
    \E r \in ReaderIDs :
        /\ rpc[r] = "idle"
        /\ rret[r] = [n |-> 1, err |-> "nil"]
        /\ Fired(r, ch[r])
        /\ ~bdone
        /\ ~closed[r]

\* ------------------------------------------------------------------------
\* One Job with its output buffer: job.New gives j.done to safebuffer.New and
\* makes the buffer the Stdout and Stderr of the command
\* ------------------------------------------------------------------------

\* the goroutine that calls Start and Stop on the Job
OutputCallers == {"g1"}

\* the reader that one JobOutput call has got from NewOutputReader
OutputReaders == {1}

\* the goroutine of exec.Cmd that copies the output of the process calls
\* Buffer.Write; it runs from cmd.Start until cmd.Wait returns
OutputWrite(n) ==
    /\ waitPc[TheJob] = "waiting"
    /\ Write(n)

\* Job.wait: cmd.Wait returns after the process has ended and the copying
\* goroutine has finished
WaitReapOutput(j, ioFailed) ==
    /\ wpc = "idle"
    /\ WaitReap(j, ioFailed)

\* a Job.wait that ends without closing done
WaitCloseOutput_noClose(j) ==
    /\ waitPc[j] = "close"
    /\ waitPc' = [waitPc EXCEPT ![j] = "finished"]
    /\ UNCHANGED <<jobs, nextID, jobVars, proc, kills, thrVars, bufVars, logVars, sysVars>>

\* Job.wait, deferred: close(j.done), which is the done of the buffer
WaitCloseOutput(j) ==
    /\ waitPc[j] = "close"
    /\ done' = [done EXCEPT ![j] = TRUE]
    /\ bdone' = TRUE
    /\ waitPc' = [waitPc EXCEPT ![j] = "finished"]
    /\ UNCHANGED <<jobs, nextID, userID, status, cmdErr, exitCode, startOnce, startErr, stopOnce, stopErr, nreaders, proc, kills, thrVars>>
    /\ UNCHANGED <<buf, list, nwrites, wpc, pos, wcur, offset, wake, closed, rpc, plen, ch, rret, got>>
    /\ UNCHANGED <<logVars, sysVars>>

InitOutput == InitJob

NextOutput ==
    \/ \E t \in OutputCallers : JobStart(t)
    \/ \E t \in OutputCallers : JobStop(t)
    \/ \E how \in {"ok", "fail"} : ProcExit(TheJob, how)
    \/ \E ioFailed \in BOOLEAN : WaitReapOutput(TheJob, ioFailed)
    \/ WaitSetStatus(TheJob)
    \/ WaitWrite(TheJob)
    \/ WaitCloseOutput(TheJob)
    \/ \E t \in OutputCallers : Stop(t)
    \/ \E t \in OutputCallers, refused \in BOOLEAN : StopKill(t, refused)
    \/ \E t \in OutputCallers : StopWait(t)
    \/ \E t \in OutputCallers : StopWrite(t)
    \/ \E r \in OutputReaders : NewReader(r)
    \/ \E r \in OutputReaders : Close(r)
    \/ \E r \in OutputReaders, n \in DstLens : Read(r, n)
    \/ \E r \in OutputReaders : ReadReadOffset(r)
    \/ \E r \in OutputReaders : ReadJobIsDone(r)
    \/ \E r \in OutputReaders : ReadAwait(r)
    \/ \E r \in OutputReaders : ReadSelect(r)
    \/ \E n \in ChunkLens : OutputWrite(n)
    \/ WriteNext
    \/ WriteReader
    \/ WriteReaderIsClosed
    \/ WriteReaderDelete
    \/ WriteIsClosed
    \/ WriteDelete
    \/ WriteWake

SpecOutput == InitOutput /\ [][NextOutput]_vars

ReadSteps(r) ==
    \/ ReadReadOffset(r)
    \/ ReadJobIsDone(r)
    \/ ReadAwait(r)
    \/ ReadSelect(r)

\* a caller that keeps reading, as io.ReadAll does: Read with a non-empty p
\* is called again after each return
KeepsReading(r) == \E n \in DstLens \ {0} : Read(r, n)

\* the job with its output, the goroutines in Read scheduled fairly and the
\* reader read again and again
SpecOutputLive ==
    /\ SpecOutput
    /\ \A r \in OutputReaders : WF_vars(ReadSteps(r)) /\ SF_vars(KeepsReading(r))

\* C20: once done is closed, a Read in progress on a reader returns, and a
\* reader that is open and is read again and again gets io.EOF: no reader
\* stays blocked after the job has ended.
C20_ReadersEndAfterDone ==
    \A r \in OutputReaders :
        /\ (bdone /\ rpc[r] \notin {"idle", "none"}) ~> (rpc[r] = "idle")
        /\ (bdone /\ rpc[r] # "none") ~> (closed[r] \/ AtEOF(r))

\* a reader that has waited in the select with no wakeup since got io.EOF
\* after done closed, having returned the whole output
C20_Witness ==
    \E r \in OutputReaders :
        /\ bdone
        /\ AtEOF(r)
        /\ ch[r] = wake[r]
        /\ got[r] = buf
        /\ Len(buf) > 0

\* ------------------------------------------------------------------------
\* Closing a reader
\* ------------------------------------------------------------------------

\* this step is a call of Read on reader r, which was not in a Read
ReadCalled(r) ==
    /\ rpc[r] = "idle"
    /\ <<rpc[r], rret[r], plen[r]>>' # <<rpc[r], rret[r], plen[r]>>

C22_CloseUnblocksRead ==
    /\ [][\A r \in OutputReaders :
            (rpc[r] = "select" /\ closed[r] /\ ~Fired(r, ch[r]) /\ ~bdone /\ rpc'[r] # "select") =>
                /\ rpc'[r] = "idle"
                /\ rret'[r] = [n |-> 0, err |-> "ErrReaderClosed"]
                /\ offset'[r] = offset[r]
                /\ got'[r] = got[r]]_vars
    /\ \A r \in OutputReaders : (rpc[r] = "select" /\ closed[r]) ~> (rpc[r] = "idle")

\* ------------------------------------------------------------------------
\* Waking and removing readers
\* ------------------------------------------------------------------------

\* C23: a Write wakes a reader at most once, so that no reader has been woken
\* more often than Write has been called; and the Write gets to the end of the
\* list, whatever Close and NewReader calls run beside it.
C23_WakeOncePerWrite ==
    /\ Alive
    /\ \A r \in ReaderPair : wake[r] <= nwrites

\* the steps inside Buffer.Write after the append: the goroutine that called
\* Write is runnable at each of them
WriteSteps ==
    \/ WriteNext
    \/ WriteReader
    \/ WriteReaderIsClosed
    \/ WriteReaderDelete
    \/ WriteIsClosed
    \/ WriteDelete
    \/ WriteWake

\* the buffer with the goroutines in Write and in Read scheduled fairly
SpecBufLive ==
    /\ SpecBuf
    /\ WF_vars(WriteSteps)
    /\ \A r \in ReaderIDs : WF_vars(ReadSteps(r))

\* reader r is in the list of the buffer
InList(r) == \E i \in 1..Len(list) : list[i] = r

\* C24: a reader that has been closed is removed from the list of the buffer
\* in the end.
C24_ClosedReaderRemoved ==
    \A r \in ReaderIDs : closed[r] ~> ~InList(r)

\* ------------------------------------------------------------------------
\* One Reader read by two goroutines at once. The goroutines are numbered, and
\* rpc, plen, ch, rret and got are here the position, the len(p), the channel
\* got from Await, the n and err, and the bytes copied into p of the Read of
\* each goroutine; offset, wake and closed are those of the one Reader.
\* ------------------------------------------------------------------------

\* the goroutines that call Read
ReadCallers == {1, 2}

\* the Reader they share, the only one of the buffer
SharedReader == 1

\* safebuffer.New and one NewReader: the reader is in the list, no goroutine
\* is in Read
InitShared ==
    /\ InitWorker
    /\ InitLog /\ InitSys
    /\ buf = <<>>
    /\ bdone = FALSE
    /\ list = <<SharedReader>>
    /\ nwrites = 0
    /\ wpc = "idle"
    /\ pos = -1
    /\ wcur = 0
    /\ offset = [c \in ReadCallers |-> 0]
    /\ wake = [c \in ReadCallers |-> 0]
    /\ closed = [c \in ReadCallers |-> FALSE]
    /\ rpc = [c \in ReadCallers |-> "idle"]
    /\ plen = [c \in ReadCallers |-> 0]
    /\ ch = [c \in ReadCallers |-> 0]
    /\ rret = [c \in ReadCallers |-> NoRead]
    /\ got = [c \in ReadCallers |-> <<>>]

\* Reader.Read(p) with len(p) = n is called by goroutine c
SharedRead(c, n) ==
    /\ Alive
    /\ rpc[c] = "idle"
    /\ IF IsClosed(SharedReader)
       THEN ReadReturn(c, 0, "ErrReaderClosed")
       ELSE /\ rpc' = [rpc EXCEPT ![c] = "Lock"]
            /\ plen' = [plen EXCEPT ![c] = n]
            /\ rret' = [rret EXCEPT ![c] = NoRead]
    /\ got' = [got EXCEPT ![c] = <<>>]
    /\ UNCHANGED <<buf, bdone, list, nwrites, wpc, pos, wcur, offset, wake, closed, ch>>
    /\ RestUnchanged

\* an offsetMu that never makes a goroutine wait
offsetMuFree_always(c) == TRUE

\* offsetMu is not held by a goroutine other than c
offsetMuFree(c) ==
    \A d \in ReadCallers \ {c} : rpc[d] \notin {"ReadOffset", "advance"}

\* Reader.readOffset: r.offsetMu.Lock()
SharedLock(c) ==
    /\ Alive
    /\ rpc[c] = "Lock"
    /\ offsetMuFree(c)
    /\ rpc' = [rpc EXCEPT ![c] = "ReadOffset"]
    /\ UNCHANGED <<buf, bdone, list, nwrites, wpc, pos, wcur, offset, wake, closed, plen, ch, rret, got>>
    /\ RestUnchanged

\* Reader.readOffset: n, err := r.ReadOffset(r.offset, p)
SharedReadOffset(c) ==
    /\ Alive
    /\ rpc[c] = "ReadOffset"
    /\ LET res == ReadOffset(buf, offset[SharedReader], plen[c]) IN
       /\ rret' = [rret EXCEPT ![c] = [n |-> res.n, err |-> res.err]]
       /\ got' = [got EXCEPT ![c] = res.bytes]
    /\ rpc' = [rpc EXCEPT ![c] = "advance"]
    /\ UNCHANGED <<buf, bdone, list, nwrites, wpc, pos, wcur, offset, wake, closed, plen, ch>>
    /\ RestUnchanged

\* Reader.readOffset: without an error r.offset += n; the deferred Unlock; and
\* Read returns what is not io.EOF
SharedAdvance(c) ==
    /\ Alive
    /\ rpc[c] = "advance"
    /\ IF rret[c].err = "nil"
       THEN /\ offset' = [offset EXCEPT ![SharedReader] = @ + rret[c].n]
            /\ ReadReturn(c, rret[c].n, "nil")
       ELSE /\ rpc' = [rpc EXCEPT ![c] = "jobIsDone"]
            /\ UNCHANGED <<offset, rret, plen>>
    /\ UNCHANGED <<buf, bdone, list, nwrites, wpc, pos, wcur, wake, closed, ch, got>>
    /\ RestUnchanged

\* Reader.Read enters the select: r.Await() is evaluated
SharedAwait(c) ==
    /\ Alive
    /\ rpc[c] = "Await"
    /\ ch' = [ch EXCEPT ![c] = Await(SharedReader)]
    /\ rpc' = [rpc EXCEPT ![c] = "select"]
    /\ UNCHANGED <<buf, bdone, list, nwrites, wpc, pos, wcur, offset, wake, closed, plen, rret, got>>
    /\ RestUnchanged

\* Reader.Read in the select: one of the cases that are ready is taken
SharedSelect(c) ==
    /\ Alive
    /\ rpc[c] = "select"
    /\ \/ /\ Fired(SharedReader, ch[c])
          /\ rpc' = [rpc EXCEPT ![c] = "Lock"]
          /\ UNCHANGED <<rret, plen>>
       \/ /\ closed[SharedReader]
          /\ ReadReturn(c, 0, "ErrReaderClosed")
       \/ /\ bdone
          /\ ReadReturn(c, 0, "EOF")
    /\ UNCHANGED <<buf, bdone, list, nwrites, wpc, pos, wcur, offset, wake, closed, ch, got>>
    /\ RestUnchanged

NextShared ==
    \/ \E c \in ReadCallers, n \in DstLens : SharedRead(c, n)
    \/ \E c \in ReadCallers : SharedLock(c)
    \/ \E c \in ReadCallers : SharedReadOffset(c)
    \/ \E c \in ReadCallers : SharedAdvance(c)
    \/ \E c \in ReadCallers : ReadJobIsDone(c)
    \/ \E c \in ReadCallers : SharedAwait(c)
    \/ \E c \in ReadCallers : SharedSelect(c)
    \/ Close(SharedReader)
    \/ \E n \in ChunkLens : Write(n)
    \/ WriteNext
    \/ WriteReader
    \/ WriteReaderIsClosed
    \/ WriteReaderDelete
    \/ WriteIsClosed
    \/ WriteDelete
    \/ WriteWake
    \/ CloseDone

SpecShared == InitShared /\ [][NextShared]_vars

\* C25: Reads of several goroutines on one reader take their bytes one after
\* the other. A call that returns n bytes returns the n bytes of the log at
\* the offset and moves the offset past them, and nothing else moves the
\* offset: the ranges returned tile the first `offset` bytes of the log, none
\* returned twice and none skipped.
C25_ReadsTileTheLog ==
    [][/\ \A c \in ReadCallers :
            (rpc[c] = "advance" /\ rpc'[c] = "idle") =>
                /\ rret'[c] = [n |-> Len(got[c]), err |-> "nil"]
                /\ offset[SharedReader] + Len(got[c]) <= Len(buf)
                /\ got[c] = [i \in 1..Len(got[c]) |-> buf[offset[SharedReader] + i]]
                /\ offset'[SharedReader] = offset[SharedReader] + Len(got[c])
       /\ offset'[SharedReader] # offset[SharedReader] =>
            \E c \in ReadCallers : rpc[c] = "advance" /\ rpc'[c] = "idle"
       /\ buf' # buf => \E k \in 0..Len(buf') : buf = SubSeq(buf', 1, k)]_vars

\* two goroutines have each got one byte from a Read, the first and the second
\* of the log
C25_Witness ==
    /\ \A c \in ReadCallers : rpc[c] = "idle" /\ rret[c] = [n |-> 1, err |-> "nil"]
    /\ got[1] # got[2]
    /\ offset[SharedReader] = 2

(***************************************************************************)
(* The two ByteBuffer implementations: an immutable linked list of chunks,  *)
(* and a slice that grows. Both get the same Write and ReadOffset calls.    *)
(***************************************************************************)
Max(a, b) == IF a >= b THEN a ELSE b

\* copy(dst, src): the elements copied are min(len(dst), len(src)), the rest
\* of dst stays
Copy(dst, src) == [i \in 1..Len(dst) |-> IF i <= Len(src) THEN src[i] ELSE dst[i]]

\* make([]byte, n): n zero bytes
Zeros(n) == [i \in 1..n |-> 0]

\* b[from:] of a sequence
From(b, from) == SubSeq(b, from + 1, Len(b))

\* a linked Write that sets size as the first Write does, every time
LinkedWrite_sizeReset(nodes, sz, p) ==
    LET data == Copy(Zeros(Len(p)), p) IN
    [root |-> Append(nodes, data), size |-> Len(data), n |-> Len(data)]

\* linked chunks, Write(p): the first node becomes root and end and sets size,
\* any other is stored in end.next and adds to size
LinkedWrite(nodes, sz, p) ==
    LET data == Copy(Zeros(Len(p)), p) IN
    IF nodes = <<>>
    THEN [root |-> <<data>>, size |-> Len(data), n |-> Len(data)]
    ELSE [root |-> Append(nodes, data), size |-> sz + Len(data), n |-> Len(data)]

\* linked chunks, ReadOffset: the walk along the chain from node on, with
\* offset still to skip and len(p) = n still free; acc is what p holds so far
RECURSIVE LinkedWalk(_, _, _, _)
LinkedWalk(nodes, off, n, acc) ==
    IF nodes = <<>> THEN acc
    ELSE LET data == Head(nodes) IN
         IF off >= Len(data) THEN LinkedWalk(Tail(nodes), off - Len(data), n, acc)
         ELSE LET i == Min(n, Len(data) - off)
                  now == acc \o SubSeq(data, off + 1, off + i)
              IN IF i = n THEN now ELSE LinkedWalk(Tail(nodes), 0, n - i, now)

\* linked chunks, ReadOffset(offset, p) with len(p) = n
LinkedReadOffset(nodes, sz, off, n) ==
    IF n = 0 THEN [n |-> 0, err |-> "nil", bytes |-> <<>>]
    ELSE IF sz <= off THEN [n |-> 0, err |-> "EOF", bytes |-> <<>>]
    ELSE LET bytes == LinkedWalk(nodes, off, n, <<>>) IN
         IF Len(bytes) > 0 THEN [n |-> Len(bytes), err |-> "nil", bytes |-> bytes]
         ELSE [n |-> 0, err |-> "EOF", bytes |-> <<>>]

\* linked chunks, String(): the data of every node along the chain
RECURSIVE LinkedString(_)
LinkedString(nodes) ==
    IF nodes = <<>> THEN <<>> ELSE Head(nodes) \o LinkedString(Tail(nodes))

\* a slice Write that, when it has to allocate, does not copy the old bytes
SliceWrite_noCopy(b, c, p) ==
    LET c0 == IF c = 0 THEN Max(minBufferSize, Len(p) * 2) ELSE c
        n == Len(p)
        l == Len(b)
    IN IF n <= c0 - l
       THEN [buf |-> Copy(b \o Zeros(n), b \o p), cap |-> c0, n |-> Min(n, Len(p))]
       ELSE [buf |-> Zeros(l) \o p, cap |-> Max(l + n, 2 * c0), n |-> Min(n, Len(p))]

\* slice, Write(p) on b.buf = b with cap(b.buf) = c: the nil slice is made
\* first; p goes into the spare capacity, or into a new array that the old
\* bytes are copied to
SliceWrite(b, c, p) ==
    LET c0 == IF c = 0 THEN Max(minBufferSize, Len(p) * 2) ELSE c
        n == Len(p)
        l == Len(b)
    IN IF n <= c0 - l
       THEN [buf |-> SubSeq(b, 1, l) \o Copy(Zeros(n), p), cap |-> c0, n |-> Min(n, Len(p))]
       ELSE LET newBuf == Copy(Zeros(l + n), b) IN
            [buf |-> SubSeq(newBuf, 1, l) \o Copy(From(newBuf, l), p),
             cap |-> Max(l + n, 2 * c0), n |-> Min(n, Len(p))]

\* a slice ReadOffset that takes an offset at the end of the log as inside it
SliceReadOffset_endInside(b, off, n) ==
    IF n = 0 THEN [n |-> 0, err |-> "nil", bytes |-> <<>>]
    ELSE IF Len(b) < off THEN [n |-> 0, err |-> "EOF", bytes |-> <<>>]
    ELSE LET c == Min(n, Len(From(b, off))) IN
         [n |-> c, err |-> "nil", bytes |-> SubSeq(From(b, off), 1, c)]

\* slice, ReadOffset(offset, p) with len(p) = n
SliceReadOffset(b, off, n) ==
    IF n = 0 THEN [n |-> 0, err |-> "nil", bytes |-> <<>>]
    ELSE IF Len(b) <= off THEN [n |-> 0, err |-> "EOF", bytes |-> <<>>]
    ELSE LET c == Min(n, Len(From(b, off))) IN
         [n |-> c, err |-> "nil", bytes |-> SubSeq(From(b, off), 1, c)]

\* Write(p) with len(p) = n on both ByteBuffers; the bytes of p carry their
\* position in the log
ByteBufferWrite(n) ==
    /\ nlog < MaxLogWrites
    /\ LET p == Chunk(Len(sbuf), n)
           lw == LinkedWrite(root, size, p)
           sw == SliceWrite(sbuf, scap, p)
       IN /\ root' = lw.root
          /\ size' = lw.size
          /\ sbuf' = sw.buf
          /\ scap' = sw.cap
          /\ lret' = [n |-> lw.n, err |-> "nil", bytes |-> <<>>]
          /\ sret' = [n |-> sw.n, err |-> "nil", bytes |-> <<>>]
    /\ nlog' = nlog + 1
    /\ rd' = [op |-> "Write", off |-> 0, n |-> n]
    /\ UNCHANGED <<wrkVars, bufVars, sysVars>>

\* ReadOffset(off, p) with len(p) = n on both ByteBuffers
ByteBufferReadOffset(off, n) ==
    /\ rd' = [op |-> "ReadOffset", off |-> off, n |-> n]
    /\ lret' = LinkedReadOffset(root, size, off, n)
    /\ sret' = SliceReadOffset(sbuf, off, n)
    /\ UNCHANGED <<root, size, sbuf, scap, nlog>>
    /\ UNCHANGED <<wrkVars, bufVars, sysVars>>

InitByteBuffer == InitWorker /\ InitBuffer /\ InitLog /\ InitSys

NextByteBuffer ==
    \/ \E n \in LogChunkLens : ByteBufferWrite(n)
    \/ \E off \in 0..(Len(sbuf) + 1), n \in LogDstLens : ByteBufferReadOffset(off, n)

SpecByteBuffer == InitByteBuffer /\ [][NextByteBuffer]_vars

\* a is b or the beginning of b
IsPrefix(a, b) == Len(a) <= Len(b) /\ a = SubSeq(b, 1, Len(a))

\* C26: the log only grows at its end. A Write makes the content the old
\* content followed by p, in both implementations; no other step changes it;
\* so the content is always the bytes written, in the order of the Writes,
\* and what it was before is a prefix of what it is.
C26_AppendOnly ==
    [][/\ IsPrefix(sbuf, sbuf')
       /\ IsPrefix(LinkedString(root), LinkedString(root'))
       /\ IF rd'.op = "Write" /\ nlog' = nlog + 1
          THEN LET p == Chunk(Len(sbuf), rd'.n) IN
               /\ sbuf' = sbuf \o p
               /\ LinkedString(root') = LinkedString(root) \o p
               /\ size' = size + Len(p)
          ELSE UNCHANGED <<sbuf, root, size>>
       /\ sbuf' = [i \in 1..Len(sbuf') |-> i]
       /\ size' = Len(LinkedString(root'))]_vars

\* 3 bytes then 70 have been written: the slice has been moved to a new array
\* and both implementations hold the 73 bytes
C26_Witness ==
    /\ Len(sbuf) = 73
    /\ scap = 2 * minBufferSize
    /\ Len(root) = 2
    /\ LinkedString(root) = sbuf

\* what the claim C27 says ReadOffset at off into a p of length n returns from
\* the log content
ReadOffsetIff(res, content, off, n) ==
    IF off >= Len(content)
    THEN res = [n |-> 0, err |-> "EOF", bytes |-> <<>>]
    ELSE /\ res.n = Min(n, Len(content) - off)
         /\ res.err = "nil"
         /\ res.bytes = SubSeq(content, off + 1, off + res.n)

\* C27 as stated: ReadOffset returns zero bytes and io.EOF exactly when the
\* offset is at or past the size, for every p; otherwise min(len(p), size -
\* offset) bytes of the log from the offset on and no error.
C27_EOFIffPastEnd ==
    rd.op = "ReadOffset" =>
        /\ ReadOffsetIff(lret, LinkedString(root), rd.off, rd.n)
        /\ ReadOffsetIff(sret, sbuf, rd.off, rd.n)

\* C27 amended: with an empty p ReadOffset returns zero bytes and no error at
\* every offset, past the end too; with a p that is not empty it is as stated.
C27_ReadOffsetResult ==
    rd.op = "ReadOffset" =>
        IF rd.n = 0
        THEN /\ lret = [n |-> 0, err |-> "nil", bytes |-> <<>>]
             /\ sret = [n |-> 0, err |-> "nil", bytes |-> <<>>]
        ELSE /\ ReadOffsetIff(lret, LinkedString(root), rd.off, rd.n)
             /\ ReadOffsetIff(sret, sbuf, rd.off, rd.n)

\* ReadOffset with an empty p at the end of a log of 73 bytes has returned
\* zero bytes and no error
C27_Witness ==
    /\ rd = [op |-> "ReadOffset", off |-> 73, n |-> 0]
    /\ Len(sbuf) = 73
    /\ sret = [n |-> 0, err |-> "nil", bytes |-> <<>>]
    /\ lret = sret

\* C28: given the same Write and ReadOffset calls, the two implementations
\* return the same count, error and bytes from every call, and String() gives
\* the same content.
C28_SameResults ==
    /\ lret = sret
    /\ LinkedString(root) = sbuf
    /\ size = Len(sbuf)

\* a ReadOffset from offset 1 into a p of 80 bytes has returned the 72 bytes
\* left of two Writes, of 3 and 70 bytes, from both implementations
C28_Witness ==
    /\ rd = [op |-> "ReadOffset", off |-> 1, n |-> 80]
    /\ Len(root) = 2
    /\ Len(root[1]) = 3
    /\ lret.n = 72
    /\ lret.bytes = SubSeq(sbuf, 2, 73)
    /\ sret = lret

C30_FailedStartNotRegistered ==
    [][/\ \A t \in Clients :
            (pc[t] = "idle" /\ Moved(t) /\ call'[t].op = "StartJob" /\ ret'[t].err # "nil")
                => /\ pc'[t] = "idle"
                   /\ ret'[t].id = 0
                   /\ jobs' = jobs
                   /\ UNCHANGED <<proc, waitPc, kills>>
       /\ \A j \in jobs' : startErr'[j] = "nil" /\ userID'[j] # NoUser]_vars

\* a StartJob whose process could not be launched has returned the error: a
\* Job was made, and the map is empty
C30_Witness ==
    \E t \in Clients :
        /\ pc[t] = "idle"
        /\ call[t].op = "StartJob"
        /\ ret[t] = Ret("startErr")
        /\ nextID = 1
        /\ startErr[1] = "err"
        /\ jobs = {}

StopCallers == {"g1", "g2"}

\* the steps inside Job.Stop of goroutine t; in "stop" a goroutine waits for
\* stopOnce, in "stopwait" for done
StopSteps(t) ==
    \/ Stop(t)
    \/ \E refused \in BOOLEAN : StopKill(t, refused)
    \/ StopWait(t)
    \/ StopWrite(t)

\* the steps of the goroutine running Job.wait after cmd.Wait has returned
WaitDeferred ==
    \/ WaitSetStatus(TheJob)
    \/ WaitWrite(TheJob)
    \/ WaitCloseOutput(TheJob)

\* the Job with its output, one reader that reads a byte at a time and a
\* process that writes a byte at a time
NextStop ==
    \/ \E t \in StopCallers : JobStart(t)
    \/ \E t \in StopCallers : JobStop(t)
    \/ \E t \in StopCallers : StopSteps(t)
    \/ \E how \in {"ok", "fail"} : ProcExit(TheJob, how)
    \/ \E ioFailed \in BOOLEAN : WaitReapOutput(TheJob, ioFailed)
    \/ WaitDeferred
    \/ \E r \in OutputReaders : NewReader(r)
    \/ \E r \in OutputReaders : Close(r)
    \/ \E r \in OutputReaders : Read(r, 1)
    \/ \E r \in OutputReaders : ReadSteps(r)
    \/ OutputWrite(1)
    \/ WriteSteps

\* the goroutines in Stop are scheduled fairly, and so is Job.wait once
\* cmd.Wait has returned; a process that is not killed may run for ever, and
\* nothing is assumed of the reader
SpecStopLive ==
    /\ InitOutput
    /\ [][NextStop]_vars
    /\ \A t \in StopCallers : WF_vars(StopSteps(t))
    /\ WF_vars(WaitDeferred)

\* a process that was sent the kill signal ends and cmd.Wait returns for it
KilledIsReaped == (kills[TheJob] > 0) ~> (proc[TheJob] = "reaped")

\* C36: in every run where a killed process is reaped by Job.wait, a Stop
\* call on a Job whose process was launched returns in the end, whatever the
\* other Stop calls, Job.wait, the writes and the reader do beside it.
C36_StopReturns ==
    KilledIsReaped =>
        \A t \in StopCallers : (InStop(t) /\ proc[TheJob] # "none") ~> (pc[t] = "idle")

\* two Stop calls ran beside each other on a job with output and a reader:
\* one killed the process and stored Stopped, both have returned
C36_Witness ==
    /\ \A t \in StopCallers : pc[t] = "idle" /\ call[t].op = "Stop" /\ ret[t].err = "nil"
    /\ kills[TheJob] = 1
    /\ status[TheJob] = StatusStopped
    /\ Len(buf) > 0
    /\ rpc[1] # "none"

(***************************************************************************)
(* The jobs in the map were started (Spec)                                  *)
(***************************************************************************)
\* C37: every job in the map of the Worker has been through a Start that
\* succeeded: its process was launched and its status is Running, Completed
\* or Stopped. StartJob returns an id only for such a job, the status that
\* JobStatus answers is one of these three, and a StopJob that gets to Kill
\* has a process to signal.
C37_RegisteredJobsStarted ==
    [][/\ \A j \in jobs' :
            /\ startOnce'[j] = "done"
            /\ startErr'[j] = "nil"
            /\ proc'[j] # "none"
            /\ status'[j] \in {StatusRunning, StatusCompleted, StatusStopped}
       /\ \A t \in Clients :
            /\ (call'[t].op = "StartJob" /\ ret'[t].err = "nil") =>
                  /\ ret'[t].id \in jobs'
                  /\ Moved(t) => status'[ret'[t].id] = StatusRunning
            /\ (call'[t].op = "JobStatus" /\ ret'[t].err = "nil") =>
                  ret'[t].status \in {StatusRunning, StatusCompleted, StatusStopped}
            /\ pc'[t] # "panic"
            /\ pc'[t] = "kill" => proc'[call'[t].id] # "none"]_vars

\* a StopJob on a job of the map has sent the kill signal to the running
\* process and waits for done
C37_Witness ==
    \E t \in Clients :
        /\ pc[t] = "stopwait"
        /\ call[t].op = "StopJob"
        /\ call[t].id \in jobs
        /\ kills[call[t].id] = 1
        /\ proc[call[t].id] = "signal"
        /\ status[call[t].id] = StatusRunning

(***************************************************************************)
(* The iterator of Buffer.Write (SpecBuf)                                   *)
(***************************************************************************)
\* C38: no Write panics, and whenever the iterator is about to read
\* list[pos] in Reader(), pos is an index of the list.
C38_IteratorInBounds ==
    /\ Alive
    /\ wpc = "Reader" => (0 <= pos /\ pos < Len(list))

(***************************************************************************)
(* Stop on a Job without a process (SpecJob)                                *)
(***************************************************************************)
\* C39: a Stop call that gets to Kill on a Job with no process (Start never
\* called, or failed) returns no error at that step and leaves the status as
\* it is.
C39_StopWithoutProcess ==
    [][\A t \in Callers :
          (pc[t] = "kill" /\ proc[TheJob] = "none" /\ Moved(t)) =>
              /\ pc'[t] = "idle"
              /\ ret'[t].err = "nil"
              /\ status' = status]_vars

(***************************************************************************)
(* The re-executed binary: worker.New, then Worker.StartJobChild            *)
(* (SpecChild). The goroutines of ChildCallers call StartJobChild on the    *)
(* one Worker, one after another or beside each other.                      *)
(***************************************************************************)
\* how many leaf cgroups are made in one run
MaxLeaves == 2

\* the values of Config.CPUMax tried, in hundredths: below 0, 0 (no limit),
\* inside the interval, 1, and above 1
CPUMaxValues == {-1, 0, 50, CPUMaxOne, CPUMaxOne + 1}

\* the Configs given to worker.New
Configs ==
    [ReexecCommand : {"", "/proc/self/exe"}, CPUMax : CPUMaxValues,
     MemoryMax : {0, 1}, RIOPSMax : {0, 1}, WIOPSMax : {0, 1}]

\* what getBlockDevices returns: an error, or a list of so many devices
BlockDevicesError == -1
BlockDevices == {BlockDevicesError, 0, 1, 2}

\* a New that takes a CPUMax of 0 for a value outside the interval
New_zeroInvalid(config, bd) ==
    IF config.ReexecCommand = "" THEN [NewWorker(0) EXCEPT !.err = "ErrReexecCommandRequired"]
    ELSE IF config.CPUMax <= 0 \/ config.CPUMax > CPUMaxOne
         THEN [NewWorker(0) EXCEPT !.err = "ErrInvalidCPUMax"]
    ELSE IF bd = BlockDevicesError THEN [NewWorker(0) EXCEPT !.err = "getBlockDevices"]
    ELSE NewWorker(bd)

\* worker.New(config), with bd what getBlockDevices returns: the Worker, or
\* the error in its field err
New(config, bd) ==
    IF config.ReexecCommand = "" THEN [NewWorker(0) EXCEPT !.err = "ErrReexecCommandRequired"]
    ELSE IF config.CPUMax < 0 \/ config.CPUMax > CPUMaxOne
         THEN [NewWorker(0) EXCEPT !.err = "ErrInvalidCPUMax"]
    ELSE IF bd = BlockDevicesError THEN [NewWorker(0) EXCEPT !.err = "getBlockDevices"]
    ELSE NewWorker(bd)

\* the process calls worker.New with its Config
CallNew(bd) ==
    /\ worker.err = "unset"
    /\ worker' = New(cfg, bd)
    /\ UNCHANGED <<cfg, cgroups, child, image, wrkVars, bufVars, logVars, fanVars>>

\* the io.max entries of createCGroup: one for each block device
RECURSIVE IOMax(_)
IOMax(n) == IF n = 0 THEN <<>> ELSE <<"io.max">> \o IOMax(n - 1)

\* Worker.createCGroup: the files to write into the leaf, in the order of
\* cgroupData
cgroupData(config, n) ==
    <<"cgroup.procs">>
        \o (IF config.CPUMax # 0 THEN <<"cpu.max">> ELSE <<>>)
        \o (IF config.MemoryMax # 0 THEN <<"memory.max">> ELSE <<>>)
        \o (IF config.RIOPSMax > 0 \/ config.WIOPSMax > 0 THEN IOMax(n) ELSE <<>>)

\* goroutine c goes on inside StartJobChild: to the place l, having done step
\* s
ChildDoes(c, s, l) ==
    child' = [child EXCEPT ![c].pc = l, ![c].steps = Append(@, s)]

\* StartJobChild returns the error of the step that failed
ChildFails(c, e) ==
    child' = [child EXCEPT ![c].pc = "idle", ![c].err = e]

\* Worker.StartJobChild is called
StartJobChild(c) ==
    /\ image = "worker"
    /\ worker.err = "nil"
    /\ child[c].pc = "idle"
    /\ child' = [child EXCEPT ![c] = [NoChild EXCEPT !.pc = "LookPath"]]
    /\ UNCHANGED <<cfg, worker, cgroups, image, wrkVars, bufVars, logVars, fanVars>>

\* StartJobChild: exec.LookPath(command)
ChildLookPath(c, ok) ==
    /\ image = "worker"
    /\ child[c].pc = "LookPath"
    /\ IF ok THEN ChildDoes(c, "LookPath", "Once") ELSE ChildFails(c, "lookpath error")
    /\ UNCHANGED <<cfg, worker, cgroups, image, wrkVars, bufVars, logVars, fanVars>>

\* StartJobChild: w.createRootCGroupOnce.Do(w.createRootCGroup). The first
\* caller runs createRootCGroup; a caller that comes while it runs waits for
\* it to return; a later caller goes on at once
ChildOnce(c) ==
    /\ image = "worker"
    /\ child[c].pc = "Once"
    /\ \/ /\ worker.createRootCGroupOnce = "idle"
          /\ worker' = [worker EXCEPT !.createRootCGroupOnce = "running"]
          /\ child' = [child EXCEPT ![c].pc = "createRootCGroup"]
       \/ /\ worker.createRootCGroupOnce = "done"
          /\ child' = [child EXCEPT ![c].pc = "rootCGroupCreateErr"]
          /\ UNCHANGED worker
    /\ UNCHANGED <<cfg, cgroups, image, wrkVars, bufVars, logVars, fanVars>>

\* a createRootCGroup that leaves the Once unused when MkdirTemp failed, so
\* that the next caller tries again
ChildCreateRootCGroup_retries(c, ok) ==
    /\ image = "worker"
    /\ child[c].pc = "createRootCGroup"
    /\ cgroups' = [cgroups EXCEPT !.roots = @ + 1]
    /\ IF ok
       THEN /\ worker' = [worker EXCEPT !.rootCGroupName = "job-worker-"]
            /\ child' = [child EXCEPT ![c].pc = "subtree_control"]
       ELSE /\ worker' = [worker EXCEPT !.createRootCGroupOnce = "idle"]
            /\ ChildFails(c, "error creating root cgroup")
    /\ UNCHANGED <<cfg, image, wrkVars, bufVars, logVars, fanVars>>

\* Worker.createRootCGroup: os.MkdirTemp under /sys/fs/cgroup; when it fails
\* the error is kept and createRootCGroup returns, which ends the Once
ChildCreateRootCGroup(c, ok) ==
    /\ image = "worker"
    /\ child[c].pc = "createRootCGroup"
    /\ cgroups' = [cgroups EXCEPT !.roots = @ + 1]
    /\ IF ok
       THEN /\ worker' = [worker EXCEPT !.rootCGroupName = "job-worker-"]
            /\ child' = [child EXCEPT ![c].pc = "subtree_control"]
       ELSE /\ worker' = [worker EXCEPT !.rootCGroupCreateErr = "error creating root cgroup",
                                         !.createRootCGroupOnce = "done"]
            /\ child' = [child EXCEPT ![c].pc = "rootCGroupCreateErr"]
    /\ UNCHANGED <<cfg, image, wrkVars, bufVars, logVars, fanVars>>

\* Worker.createRootCGroup: os.WriteFile of cgroup.subtree_control; the error
\* is kept when it fails, and createRootCGroup returns, which ends the Once
ChildSubtreeControl(c, ok) ==
    /\ image = "worker"
    /\ child[c].pc = "subtree_control"
    /\ worker' = [worker EXCEPT
            !.rootCGroupCreateErr = IF ok THEN @ ELSE "error writing cgroup.subtree_control",
            !.createRootCGroupOnce = "done"]
    /\ IF ok THEN ChildDoes(c, "createRootCGroup", "rootCGroupCreateErr")
       ELSE child' = [child EXCEPT ![c].pc = "rootCGroupCreateErr"]
    /\ UNCHANGED <<cfg, cgroups, image, wrkVars, bufVars, logVars, fanVars>>

\* StartJobChild: if w.rootCGroupCreateErr != nil, return it
ChildRootCGroupCreateErr(c) ==
    /\ image = "worker"
    /\ child[c].pc = "rootCGroupCreateErr"
    /\ IF worker.rootCGroupCreateErr # "nil"
       THEN ChildFails(c, "error creating root cgroup")
       ELSE child' = [child EXCEPT ![c].pc = "createCGroup"]
    /\ UNCHANGED <<cfg, worker, cgroups, image, wrkVars, bufVars, logVars, fanVars>>

\* Worker.createCGroup: os.MkdirTemp(w.rootCGroupName, "job-") makes a
\* directory with a new name; then cgroupData is built
ChildCreateCGroup(c, ok) ==
    /\ image = "worker"
    /\ child[c].pc = "createCGroup"
    /\ cgroups.leaves < MaxLeaves
    /\ IF ok
       THEN /\ cgroups' = [cgroups EXCEPT !.leaves = @ + 1]
            /\ child' = [child EXCEPT ![c].pc = "WriteFile",
                                      ![c].steps = Append(@, "MkdirTemp"),
                                      ![c].leaf = cgroups.leaves + 1,
                                      ![c].data = cgroupData(cfg, worker.blockDevices)]
       ELSE /\ ChildFails(c, "error creating cgroup")
            /\ UNCHANGED cgroups
    /\ UNCHANGED <<cfg, worker, image, wrkVars, bufVars, logVars, fanVars>>

\* a createCGroup that goes on with the next file when a write failed
ChildWriteFile_ignoreErr(c, ok) ==
    /\ image = "worker"
    /\ child[c].pc = "WriteFile"
    /\ child' = [child EXCEPT
            ![c].pc = IF Len(child[c].data) = 1 THEN "mountProc" ELSE "WriteFile",
            ![c].steps = IF ok THEN Append(@, Head(child[c].data)) ELSE @,
            ![c].data = Tail(@)]
    /\ UNCHANGED <<cfg, worker, cgroups, image, wrkVars, bufVars, logVars, fanVars>>

\* Worker.createCGroup: os.WriteFile of the next file of cgroupData; the first
\* error ends createCGroup, and after the last file it returns nil
ChildWriteFile(c, ok) ==
    /\ image = "worker"
    /\ child[c].pc = "WriteFile"
    /\ IF ok
       THEN child' = [child EXCEPT
                ![c].pc = IF Len(child[c].data) = 1 THEN "mountProc" ELSE "WriteFile",
                ![c].steps = Append(@, Head(child[c].data)),
                ![c].data = Tail(@)]
       ELSE ChildFails(c, "error creating cgroup")
    /\ UNCHANGED <<cfg, worker, cgroups, image, wrkVars, bufVars, logVars, fanVars>>

\* a StartJobChild that goes on to the exec when /proc could not be mounted
ChildMountProc_ignoreErr(c, ok) ==
    /\ image = "worker"
    /\ child[c].pc = "mountProc"
    /\ IF ok THEN ChildDoes(c, "mountProc", "Exec")
       ELSE child' = [child EXCEPT ![c].pc = "Exec"]
    /\ UNCHANGED <<cfg, worker, cgroups, image, wrkVars, bufVars, logVars, fanVars>>

\* StartJobChild: mountProc()
ChildMountProc(c, ok) ==
    /\ image = "worker"
    /\ child[c].pc = "mountProc"
    /\ IF ok THEN ChildDoes(c, "mountProc", "Exec") ELSE ChildFails(c, "error mounting /proc")
    /\ UNCHANGED <<cfg, worker, cgroups, image, wrkVars, bufVars, logVars, fanVars>>

\* StartJobChild: syscall.Exec. When it succeeds the process runs the command
\* from then on and nothing of the Worker is left; when it fails StartJobChild
\* returns the error
ChildExec(c, ok) ==
    /\ image = "worker"
    /\ child[c].pc = "Exec"
    /\ IF ok
       THEN /\ ChildDoes(c, "Exec", "gone")
            /\ image' = "command"
       ELSE /\ ChildFails(c, "syscall.Exec error")
            /\ UNCHANGED image
    /\ UNCHANGED <<cfg, worker, cgroups, wrkVars, bufVars, logVars, fanVars>>

\* Worker.StartJob called on the same Worker, once
ChildStartJob(t) ==
    /\ image = "worker"
    /\ worker.err = "nil"
    /\ nextID = 0
    /\ StartJob(t, "u")

\* the process has started with some Config and has not called worker.New yet
InitNew ==
    /\ InitWorker /\ InitBuffer /\ InitLog
    /\ cfg \in Configs
    /\ worker = [NewWorker(0) EXCEPT !.err = "unset"]
    /\ InitChild
    /\ InitFanout

NextChild ==
    \/ \E bd \in BlockDevices : CallNew(bd)
    \/ \E c \in ChildCallers : StartJobChild(c)
    \/ \E c \in ChildCallers, ok \in BOOLEAN : ChildLookPath(c, ok)
    \/ \E c \in ChildCallers : ChildOnce(c)
    \/ \E c \in ChildCallers, ok \in BOOLEAN : ChildCreateRootCGroup(c, ok)
    \/ \E c \in ChildCallers, ok \in BOOLEAN : ChildSubtreeControl(c, ok)
    \/ \E c \in ChildCallers : ChildRootCGroupCreateErr(c)
    \/ \E c \in ChildCallers, ok \in BOOLEAN : ChildCreateCGroup(c, ok)
    \/ \E c \in ChildCallers, ok \in BOOLEAN : ChildWriteFile(c, ok)
    \/ \E c \in ChildCallers, ok \in BOOLEAN : ChildMountProc(c, ok)
    \/ \E c \in ChildCallers, ok \in BOOLEAN : ChildExec(c, ok)
    \/ \E t \in Clients : ChildStartJob(t)

SpecChild == InitNew /\ [][NextChild]_vars

\* C31: os.MkdirTemp for the root cgroup is called at most once in the life
\* of a Worker, and only by a goroutine inside StartJobChild: not by
\* worker.New and not by StartJob. Once createRootCGroup has returned, with or
\* without an error, the Once and the fields of the root cgroup never change
\* again. A leaf cgroup is made only after createRootCGroup has returned with
\* no error.
C31_RootCreatedOnce ==
    [][/\ cgroups'.roots <= 1
       /\ cgroups'.roots # cgroups.roots =>
             \E c \in ChildCallers :
                 /\ child[c].pc = "createRootCGroup"
                 /\ child'[c].pc # "createRootCGroup"
                 /\ worker.createRootCGroupOnce = "running"
       /\ worker.err # "nil" => cgroups' = cgroups
       /\ worker.createRootCGroupOnce = "done" =>
             /\ worker' = worker
             /\ cgroups'.roots = cgroups.roots
       /\ cgroups'.leaves # cgroups.leaves =>
             /\ worker.createRootCGroupOnce = "done"
             /\ worker.rootCGroupCreateErr = "nil"
             /\ worker.rootCGroupName # ""
             /\ cgroups.roots = 1]_vars

\* the first StartJobChild failed to make the root cgroup while the second
\* waited in the Once; both have returned the error and StartJob has run:
\* one attempt was made
C31_Witness ==
    /\ cgroups = [roots |-> 1, leaves |-> 0]
    /\ worker.createRootCGroupOnce = "done"
    /\ worker.rootCGroupCreateErr = "error creating root cgroup"
    /\ \A c \in ChildCallers :
          child[c].pc = "idle" /\ child[c].err = "error creating root cgroup"
    /\ nextID = 1

\* the steps of a StartJobChild that gets to the end, in their order; first
\* tells whether it is the call that made the root cgroup
ChildOrder(first) ==
    <<"LookPath">>
        \o (IF first THEN <<"createRootCGroup">> ELSE <<>>)
        \o <<"MkdirTemp">>
        \o cgroupData(cfg, worker.blockDevices)
        \o <<"mountProc", "Exec">>

\* C32: what a StartJobChild call has done so far is always a beginning of:
\* LookPath, the root cgroup (in the call that makes it), the leaf directory,
\* the files of the leaf, the mount of /proc, the exec. A step that fails
\* makes the call return its error with nothing more done, the image of the
\* process unchanged; the image is replaced only by a call that has done
\* every step of the list.
C32_ChildStepsInOrder ==
    [][\A c \in ChildCallers :
          /\ \E first \in BOOLEAN : IsPrefix(child'[c].steps, ChildOrder(first)')
          /\ (child[c].err = "none" /\ child'[c].err # "none") =>
                /\ child'[c].pc = "idle"
                /\ child'[c].steps = child[c].steps
                /\ image' = "worker"
                /\ cgroups' = cgroups \/ child[c].pc = "createRootCGroup"
          /\ (child[c].err # "none" /\ child'[c].err # "none") => child'[c] = child[c]
          /\ (image = "worker" /\ image' = "command" /\ child'[c] # child[c]) =>
                /\ child'[c].err = "none"
                /\ \E first \in BOOLEAN : child'[c].steps = ChildOrder(first)']_vars

\* the call that made the root cgroup has written every limit for two block
\* devices, mounted /proc and replaced the image
C32_Witness ==
    \E c \in ChildCallers :
        /\ image = "command"
        /\ child[c].steps = <<"LookPath", "createRootCGroup", "MkdirTemp", "cgroup.procs", "cpu.max",
                              "memory.max", "io.max", "io.max", "mountProc", "Exec">>

\* how many times x is in the sequence s
RECURSIVE Count(_, _)
Count(s, x) ==
    IF s = <<>> THEN 0 ELSE (IF Head(s) = x THEN 1 ELSE 0) + Count(Tail(s), x)

\* the files written so far into the leaf of call c: what it did after
\* MkdirTemp, up to the mount
LeafFiles(c) ==
    LET st == child[c].steps
        i == CHOOSE k \in 1..Len(st) : st[k] = "MkdirTemp"
    IN SelectSeq(SubSeq(st, i + 1, Len(st)), LAMBDA x : x \notin {"mountProc", "Exec"})

\* C34: a StartJobChild call that is at the exec, or past it, has made a leaf
\* cgroup that no other call has, and has written into it cgroup.procs first
\* and then cpu.max if CPUMax is set, memory.max if MemoryMax is set, and
\* io.max once for each block device if RIOPSMax or WIOPSMax is set, each
\* write without error: also with no limit set, where cgroup.procs is the one
\* file.
C34_LimitsBeforeExec ==
    \A c \in ChildCallers :
        child[c].pc \in {"Exec", "gone"} =>
            /\ child[c].leaf \in 1..cgroups.leaves
            /\ \A d \in ChildCallers \ {c} : child[d].leaf # child[c].leaf
            /\ child[c].data = <<>>
            /\ Count(child[c].steps, "MkdirTemp") = 1
            /\ LET files == LeafFiles(c) IN
                /\ Len(files) >= 1
                /\ files[1] = "cgroup.procs"
                /\ Count(files, "cgroup.procs") = 1
                /\ Count(files, "cpu.max") = IF cfg.CPUMax # 0 THEN 1 ELSE 0
                /\ Count(files, "memory.max") = IF cfg.MemoryMax # 0 THEN 1 ELSE 0
                /\ Count(files, "io.max") =
                      IF cfg.RIOPSMax > 0 \/ cfg.WIOPSMax > 0 THEN worker.blockDevices ELSE 0

\* with no limit in the Config, the second call to make a leaf is at the exec:
\* its leaf is its own and holds its pid
C34_Witness ==
    \E c \in ChildCallers :
        /\ cfg.CPUMax = 0 /\ cfg.MemoryMax = 0 /\ cfg.RIOPSMax = 0 /\ cfg.WIOPSMax = 0
        /\ child[c].pc = "Exec"
        /\ child[c].leaf = 2
        /\ child[c].steps = <<"LookPath", "MkdirTemp", "cgroup.procs", "mountProc">>

\* C33 as stated: New fails with ErrReexecCommandRequired when ReexecCommand
\* is empty, fails with ErrInvalidCPUMax exactly when CPUMax is outside the
\* interval (0, 1], and succeeds for every other Config.
C33_NewErrorsAsStated ==
    worker.err # "unset" =>
        LET outside == ~(0 < cfg.CPUMax /\ cfg.CPUMax <= CPUMaxOne) IN
        /\ cfg.ReexecCommand = "" => worker.err = "ErrReexecCommandRequired"
        /\ worker.err = "ErrInvalidCPUMax" <=> outside
        /\ (cfg.ReexecCommand # "" /\ ~outside) => worker.err = "nil"

\* C33 amended: New fails with ErrReexecCommandRequired exactly when
\* ReexecCommand is empty; with a ReexecCommand it fails with ErrInvalidCPUMax
\* exactly when CPUMax is below 0 or above 1, a CPUMax of 0 being accepted; for
\* every other Config it succeeds, unless getBlockDevices fails, whose error
\* it then returns.
C33_NewResult ==
    worker.err # "unset" =>
        /\ worker.err = "ErrReexecCommandRequired" <=> cfg.ReexecCommand = ""
        /\ worker.err = "ErrInvalidCPUMax" <=>
              (cfg.ReexecCommand # "" /\ (cfg.CPUMax < 0 \/ cfg.CPUMax > CPUMaxOne))
        /\ (cfg.ReexecCommand # "" /\ 0 <= cfg.CPUMax /\ cfg.CPUMax <= CPUMaxOne) =>
              worker.err \in {"nil", "getBlockDevices"}

\* New has made a Worker from a Config with CPUMax 0, and a StartJobChild of
\* that Worker is at the exec with no cpu.max written
C33_Witness ==
    /\ worker.err = "nil"
    /\ cfg.CPUMax = 0
    /\ cfg.MemoryMax = 1
    /\ \E c \in ChildCallers :
          child[c].pc = "Exec" /\ Count(child[c].steps, "cpu.max") = 0

(***************************************************************************)
(* The Buffer that fans out over channels (SpecFan):                        *)
(* pkg/safebuffer/safebuffer.go with pkg/safebuffer/safereader. Write sends *)
(* a copy of p to the data channel of every reader, holding Buffer.mu; the  *)
(* receiver goroutine of each reader appends what it receives to the        *)
(* reader's own buffer. The sections under Reader.mu never block and are    *)
(* one step each.                                                           *)
(***************************************************************************)
\* how many Write calls the Buffer gets
MaxFanWrites == 2

\* len(p) of a Write
FanChunkLens == {0, 1}

FanRest == UNCHANGED <<wrkVars, bufVars, logVars, chdVars>>

\* Buffer.NewReader, under Buffer.mu: safereader.New copies the bytes written
\* so far; with the job running it makes the channels, starts the receiver
\* and the Buffer puts the reader into chans; with the job over it closes the
\* reader at once
FanNewReader(r) ==
    /\ fanout.mu = "free"
    /\ ~freaders[r].made
    /\ IF ~fanout.jobDone
       THEN /\ freaders' = [freaders EXCEPT ![r] =
                   [NoFanReader EXCEPT !.made = TRUE, !.buf = fanout.buf, !.receiver = "select"]]
            /\ fanout' = [fanout EXCEPT !.chans = @ \cup {r}]
       ELSE /\ freaders' = [freaders EXCEPT ![r] =
                   [NoFanReader EXCEPT !.made = TRUE, !.buf = fanout.buf, !.closed = TRUE]]
            /\ UNCHANGED fanout
    /\ UNCHANGED fwriter
    /\ FanRest

\* Reader.Close: closeOnce.Do(r.close) closes the channel closed
FanClose(r) ==
    /\ freaders[r].made
    /\ freaders' = [freaders EXCEPT ![r].closed = TRUE]
    /\ UNCHANGED <<fanout, fwriter>>
    /\ FanRest

\* what Reader.Read returns to its caller
FanReadReturn(r, n, err) ==
    freaders' = [freaders EXCEPT ![r].pc = "idle", ![r].off = @ + n, ![r].ret = [n |-> n, err |-> err]]

\* Reader.Read(p) with len(p) = 1, under Reader.mu: r.buf.Read(p); with
\* io.EOF and the reader open, dataAvail is taken and the goroutine goes to
\* the select
FanRead(r) ==
    /\ freaders[r].made
    /\ freaders[r].pc = "idle"
    /\ IF freaders[r].off < freaders[r].buf THEN FanReadReturn(r, 1, "nil")
       ELSE IF freaders[r].closed THEN FanReadReturn(r, 0, "EOF")
       ELSE freaders' = [freaders EXCEPT ![r].pc = "select", ![r].seen = freaders[r].dataAvail]
    /\ UNCHANGED <<fanout, fwriter>>
    /\ FanRest

\* Reader.Read: the select. closed gives io.EOF; the dataAvail taken before,
\* closed by a write since, gives what r.buf.Read returns now
FanReadSelect(r) ==
    /\ freaders[r].pc = "select"
    /\ \/ /\ freaders[r].closed
          /\ FanReadReturn(r, 0, "EOF")
       \/ /\ freaders[r].seen < freaders[r].dataAvail
          /\ FanReadReturn(r, 1, "nil")
    /\ UNCHANGED <<fanout, fwriter>>
    /\ FanRest

\* Reader.receiver: the case <-r.closed of its select: it returns
ReceiverClosed(r) ==
    /\ freaders[r].receiver = "select"
    /\ freaders[r].closed
    /\ freaders' = [freaders EXCEPT ![r].receiver = "returned"]
    /\ UNCHANGED <<fanout, fwriter>>
    /\ FanRest

\* Reader.receiver: the case <-r.dataCh with the channel closed: r.Close()
\* and it returns
ReceiverDataChClosed(r) ==
    /\ freaders[r].receiver = "select"
    /\ freaders[r].dataChClosed
    /\ freaders' = [freaders EXCEPT ![r].receiver = "returned", ![r].closed = TRUE]
    /\ UNCHANGED <<fanout, fwriter>>
    /\ FanRest

\* Reader.receiver: r.write(data), under Reader.mu: the bytes are appended
\* and, if there are any, dataAvail is closed and replaced
ReceiverWrite(r) ==
    /\ freaders[r].receiver = "write"
    /\ freaders' = [freaders EXCEPT
            ![r].receiver = "select",
            ![r].buf = @ + freaders[r].data,
            ![r].dataAvail = IF freaders[r].data > 0 THEN @ + 1 ELSE @,
            ![r].data = 0]
    /\ UNCHANGED <<fanout, fwriter>>
    /\ FanRest

\* Buffer.Write(p) with len(p) = n: b.mu.Lock(), and the range over b.chans
\* begins
FanWrite(n) ==
    /\ fwriter.pc = "idle"
    /\ fanout.mu = "free"
    /\ ~fanout.jobDone
    /\ fanout.nwrites < MaxFanWrites
    /\ fanout' = [fanout EXCEPT !.mu = "Write", !.nwrites = @ + 1]
    /\ fwriter' = [pc |-> "range", n |-> n, todo |-> fanout.chans, cur |-> 0]
    /\ UNCHANGED freaders
    /\ FanRest

\* Buffer.Write: the range gives the next entry of the map, in no fixed
\* order, or ends
FanWriteRange ==
    /\ fwriter.pc = "range"
    /\ IF fwriter.todo = {}
       THEN fwriter' = [fwriter EXCEPT !.pc = "buf.Write"]
       ELSE \E r \in fwriter.todo :
               fwriter' = [fwriter EXCEPT !.pc = "select", !.cur = r, !.todo = @ \ {r}]
    /\ UNCHANGED <<fanout, freaders>>
    /\ FanRest

\* Buffer.Write: select with a default. A reader found closed is removed, its
\* data channel closed; for any other the Write goes on to the send
FanWriteSelect ==
    /\ fwriter.pc = "select"
    /\ LET r == fwriter.cur IN
       IF freaders[r].closed
       THEN /\ freaders' = [freaders EXCEPT ![r].dataChClosed = TRUE]
            /\ fanout' = [fanout EXCEPT !.chans = @ \ {r}]
            /\ fwriter' = [fwriter EXCEPT !.pc = "range"]
       ELSE /\ fwriter' = [fwriter EXCEPT !.pc = "send"]
            /\ UNCHANGED <<fanout, freaders>>
    /\ FanRest

\* Buffer.Write: dataCh <- v. The channel has no buffer: the send completes
\* when the receiver of the reader is in its select and takes the case
\* <-r.dataCh, and blocks until then
FanWriteSend ==
    /\ fwriter.pc = "send"
    /\ LET r == fwriter.cur IN
       /\ freaders[r].receiver = "select"
       /\ freaders' = [freaders EXCEPT ![r].receiver = "write", ![r].data = fwriter.n]
       /\ fwriter' = [fwriter EXCEPT !.pc = "range"]
    /\ UNCHANGED fanout
    /\ FanRest

\* Buffer.Write: b.buf.Write(p), the deferred Unlock, and Write returns
FanWriteBuf ==
    /\ fwriter.pc = "buf.Write"
    /\ fanout' = [fanout EXCEPT !.buf = @ + fwriter.n, !.mu = "free"]
    /\ fwriter' = [fwriter EXCEPT !.pc = "idle"]
    /\ UNCHANGED freaders
    /\ FanRest

\* jobDone closes: Job.wait closes it after cmd.Wait, when the last Write of
\* the output has returned
FanJobDone ==
    /\ fwriter.pc = "idle"
    /\ ~fanout.jobDone
    /\ fanout' = [fanout EXCEPT !.jobDone = TRUE]
    /\ UNCHANGED <<fwriter, freaders>>
    /\ FanRest

\* Buffer.jobWatcher: after <-b.jobDone, under b.mu, every data channel is
\* closed and removed from chans
FanJobWatcher ==
    /\ fanout.jobDone
    /\ fanout.mu = "free"
    /\ fanout.chans # {}
    /\ freaders' = [r \in FanReaders |->
            IF r \in fanout.chans THEN [freaders[r] EXCEPT !.dataChClosed = TRUE] ELSE freaders[r]]
    /\ fanout' = [fanout EXCEPT !.chans = {}]
    /\ UNCHANGED fwriter
    /\ FanRest

\* the steps inside Buffer.Write
FanWriteSteps ==
    \/ FanWriteRange
    \/ FanWriteSelect
    \/ FanWriteSend
    \/ FanWriteBuf

\* the steps of the receiver goroutine of reader r
ReceiverSteps(r) ==
    \/ ReceiverClosed(r)
    \/ ReceiverDataChClosed(r)
    \/ ReceiverWrite(r)

InitFan == InitWorker /\ InitBuffer /\ InitLog /\ InitSys

NextFan ==
    \/ \E r \in FanReaders : FanNewReader(r)
    \/ \E r \in FanReaders : FanClose(r)
    \/ \E r \in FanReaders : FanRead(r)
    \/ \E r \in FanReaders : FanReadSelect(r)
    \/ \E r \in FanReaders : ReceiverSteps(r)
    \/ \E n \in FanChunkLens : FanWrite(n)
    \/ FanWriteSteps
    \/ FanJobDone
    \/ FanJobWatcher

SpecFan == InitFan /\ [][NextFan]_vars

\* the goroutine in Write, the receivers, the goroutines in Read and the
\* jobWatcher are scheduled fairly
SpecFanLive ==
    /\ SpecFan
    /\ WF_vars(FanWriteSteps)
    /\ \A r \in FanReaders : WF_vars(ReceiverSteps(r)) /\ WF_vars(FanReadSelect(r))
    /\ WF_vars(FanJobWatcher)

\* C40: every Write call returns in the end.
C40_WriteReturns == (fwriter.pc # "idle") ~> (fwriter.pc = "idle")
====
